---- MODULE Spec2Model ----
(***************************************************************************)
(* A model of token-saver: the processor registry, the dispatch pipeline,  *)
(* the generic light-clean pass and the SQLite savings ledger.             *)
(*                                                                         *)
(* Commands are sequences of words (the text between word boundaries), so  *)
(* that a regular expression such as \b(curl|wget)\b is "some word of the  *)
(* command is curl or wget" and ^(curl|wget)\b is "the first word is".     *)
(* Texts handled by the light-clean pass are sequences of characters.      *)
(* Ledger time is counted in days (86400 s), sizes in bytes.               *)
(***************************************************************************)
EXTENDS Integers, Sequences, FiniteSets, TLC

VARIABLES
    classes,    \* registry: the processor classes, in the order they are instantiated
    registry,   \* registry: the outcome of discover_processors
    config,     \* pipeline: min_input_length and min_compression_ratio (in percent)
    call,       \* pipeline: the last invocation and what it did
    db,         \* ledger: the committed tables (savings, sessions, autoincrement id)
    txn,        \* ledger: the open write transaction (owner connection and its view)
    trackers,   \* ledger: the SavingsTracker instances
    now,        \* ledger: time.time(), in days
    audit,      \* ledger: the last ledger operation and what it returned
    text,       \* light clean: the input text
    once,       \* light clean: clean(text)
    twice,      \* light clean: clean(clean(text))
    pc,         \* threads: where each thread is inside its ledger operation
    lock,       \* threads: SavingsTracker._lock (owner and depth)
    done        \* threads: the record calls that have returned, per thread

vars == <<classes, registry, config, call, db, txn, trackers, now, audit,
          text, once, twice, pc, lock, done>>

----------------------------------------------------------------------------
(* Bounds of the model *)

MaxRegistered == 3      \* processor classes handed to one registry construction
MaxPipelineCalls == 2   \* invocations of the pipeline

Min(a, b) == IF a < b THEN a ELSE b

----------------------------------------------------------------------------
(* Commands and the processors' can_handle *)

\* re.search(r"\b(w1|w2|...)\b", command)
HasWord(cmd, W) == \E i \in 1..Len(cmd) : cmd[i] \in W

\* re.search(r"\b(a1|a2|...)\s+(b1|b2|...)\b", command)
HasPair(cmd, A, B) == \E i \in 1..(Len(cmd) - 1) : cmd[i] \in A /\ cmd[i + 1] \in B

PackageListCanHandle(cmd) ==
    \/ HasPair(cmd, {"pip", "pip3"}, {"list", "freeze"})
    \/ HasPair(cmd, {"npm"}, {"ls", "list"})
    \/ HasPair(cmd, {"conda", "yarn", "pnpm", "gem", "brew"}, {"list"})

NetworkCanHandle(cmd) == HasWord(cmd, {"curl", "wget", "http", "https"})

TerraformCanHandle(cmd) ==
    HasPair(cmd, {"terraform", "tofu"}, {"plan", "apply", "destroy"})

SearchCanHandle(cmd) == HasWord(cmd, {"grep", "rg", "ag"})

GenericCanHandle(cmd) == TRUE

\* A further Processor subclass, as a plugin or a test would define it: it
\* handles echo commands only.
CustomCanHandle(cmd) == cmd[1] = "echo"

PackageListProcessor == [name |-> "package_list", priority |-> 15]
NetworkProcessor == [name |-> "network", priority |-> 30]
TerraformProcessor == [name |-> "terraform", priority |-> 33]
SearchProcessor == [name |-> "search", priority |-> 35]
GenericProcessor == [name |-> "generic", priority |-> 999]

\* The subclasses of Processor in the package.
PackagedProcessors ==
    {PackageListProcessor, NetworkProcessor, TerraformProcessor,
     SearchProcessor, GenericProcessor}

\* Subclasses that are not GenericProcessor, at the priorities that matter
\* to the registry's validation.
CustomProcessors == {[name |-> "custom", priority |-> p] : p \in {999, 1000}}

can_handle(p, cmd) ==
    CASE p.name = "package_list" -> PackageListCanHandle(cmd)
      [] p.name = "network" -> NetworkCanHandle(cmd)
      [] p.name = "terraform" -> TerraformCanHandle(cmd)
      [] p.name = "search" -> SearchCanHandle(cmd)
      [] p.name = "generic" -> GenericCanHandle(cmd)
      [] OTHER -> CustomCanHandle(cmd)

----------------------------------------------------------------------------
(* The registry: discover_processors *)

\* list.sort(key=priority) is stable: an element goes after the elements
\* already placed whose priority is lower or equal.
RECURSIVE InsertByPriority(_, _)
InsertByPriority(sorted, p) ==
    IF sorted = <<>> THEN <<p>>
    ELSE IF sorted[Len(sorted)].priority <= p.priority THEN Append(sorted, p)
    ELSE Append(InsertByPriority(SubSeq(sorted, 1, Len(sorted) - 1), p),
                sorted[Len(sorted)])

RECURSIVE SortFrom(_, _)
SortFrom(sorted, rest) ==
    IF rest = <<>> THEN sorted
    ELSE SortFrom(InsertByPriority(sorted, Head(rest)), Tail(rest))

UnsortedInstances(instances) == instances

SortByPriority(instances) == SortFrom(<<>>, instances)

\* The validation after the sort: a non-empty list whose last element does
\* not have priority 999 raises RuntimeError.
ValidateLast(instances) ==
    IF instances # <<>> /\ instances[Len(instances)].priority # 999
    THEN [status |-> "error", instances |-> <<>>]
    ELSE [status |-> "ok", instances |-> instances]

\* order: the subclasses as the set iteration yields them.
discover_processors(order) == ValidateLast(SortByPriority(order))

\* The sequences without repetition over S, of length at most n.
Orders(S, n) ==
    UNION {{o \in [1..k -> S] : \A i, j \in 1..k : i # j => o[i] # o[j]} : k \in 0..n}

----------------------------------------------------------------------------
(* The savings ledger: the SQLite store behind SavingsTracker *)

DefaultPruneDays == 90
MaxCommandChars == 500

MaxLedgerRows == 2      \* savings rows ever inserted in the ledger runs
MaxTime == 180          \* the last day the model's clock reaches

ClockSteps == {90}
Sids == {"s1", "s2"}
Trackers == {"t1", "t2"}
Platform == "claude"

EmptyDb == [savings |-> {}, sessions |-> {}, nextId |-> 1]
NoTxn == [owner |-> "none", view |-> EmptyDb]

\* What connection t reads: its own uncommitted changes, else the committed tables.
View(S, t) == IF S.txn.owner = t THEN S.txn.view ELSE S.db

\* The write lock of the store is held by another connection: the statement
\* raises OperationalError (database is locked) once the busy timeout passes.
Busy(S, t) == S.txn.owner \notin {"none", t}

\* conn.execute of a statement that writes: on success the connection's
\* (implicitly opened) transaction holds the new tables.
Execute(S, t, newView, fails) ==
    IF fails \/ Busy(S, t)
    THEN [S EXCEPT !.ok = FALSE]
    ELSE [S EXCEPT !.txn = [owner |-> t, view |-> newView]]

\* conn.commit()
Commit(S, t, fails) ==
    IF fails THEN [S EXCEPT !.ok = FALSE]
    ELSE IF S.txn.owner = t THEN [S EXCEPT !.db = S.txn.view, !.txn = NoTxn]
    ELSE S

NoRollback(S, t) == S

\* conn.rollback(); on a closed connection it raises, and the error is suppressed.
Rollback(S, t) == IF S.txn.owner = t THEN [S EXCEPT !.txn = NoTxn] ELSE S

\* command[:500]
Truncated(command) == SubSeq(command, 1, Min(Len(command), MaxCommandChars))

\* INSERT INTO savings (...) VALUES (...)
InsertSaving(v, t0, sid, command, processor, o, c) ==
    [v EXCEPT !.savings = @ \cup {[id |-> v.nextId, timestamp |-> t0,
                                    session_id |-> sid,
                                    command |-> Truncated(command),
                                    processor |-> processor,
                                    original_size |-> o, compressed_size |-> c,
                                    platform |-> Platform]},
              !.nextId = @ + 1]

UpsertOverwrites(v, t0, sid, o, c) ==
    [v EXCEPT !.sessions =
        {r \in @ : r.session_id # sid}
        \cup {[session_id |-> sid, first_seen |-> t0, last_seen |-> t0,
               total_original |-> o, total_compressed |-> c, command_count |-> 1]}]

\* INSERT INTO sessions ... ON CONFLICT(session_id) DO UPDATE SET ...
UpsertSession(v, t0, sid, o, c) ==
    IF \E r \in v.sessions : r.session_id = sid
    THEN [v EXCEPT !.sessions =
            {IF r.session_id = sid
             THEN [r EXCEPT !.last_seen = t0,
                            !.total_original = @ + o,
                            !.total_compressed = @ + c,
                            !.command_count = @ + 1]
             ELSE r : r \in @}]
    ELSE [v EXCEPT !.sessions =
            @ \cup {[session_id |-> sid, first_seen |-> t0, last_seen |-> t0,
                     total_original |-> o, total_compressed |-> c,
                     command_count |-> 1]}]

\* DELETE FROM savings WHERE timestamp < cutoff
DeleteOldSavings(v, cutoff) ==
    [v EXCEPT !.savings = {r \in @ : ~(r.timestamp < cutoff)}]

\* DELETE FROM sessions WHERE last_seen < cutoff
DeleteOldSessions(v, cutoff) ==
    [v EXCEPT !.sessions = {r \in @ : ~(r.last_seen < cutoff)}]

\* record_saving, from the lock's acquisition to its release. failAt names the
\* statement that raises sqlite3.Error ("none": no statement does); on a closed
\* connection the first statement raises.
record_saving(S, tr, t, a, t0, failAt) ==
    LET s0 == [ok |-> TRUE, db |-> S.db, txn |-> S.txn]
        s1 == Execute(s0, t,
                      InsertSaving(View(s0, t), t0, tr.session_id, a.command,
                                   a.processor, a.original_size, a.compressed_size),
                      tr.state # "open" \/ failAt = "insert")
        s2 == IF s1.ok
              THEN Execute(s1, t,
                           UpsertSession(View(s1, t), t0, tr.session_id,
                                         a.original_size, a.compressed_size),
                           failAt = "upsert")
              ELSE s1
        s3 == IF s2.ok THEN Commit(s2, t, failAt = "commit") ELSE s2
    IN  IF s3.ok THEN s3 ELSE Rollback(s3, t)

\* _maybe_prune: an error leaves the method without a rollback.
maybe_prune(S, tr, t, t0, failAt) ==
    LET cutoff == t0 - tr.prune_days
        s0 == [ok |-> TRUE, db |-> S.db, txn |-> S.txn]
        s1 == Execute(s0, t, DeleteOldSavings(View(s0, t), cutoff),
                      failAt = "delete_savings")
        s2 == IF s1.ok
              THEN Execute(s1, t, DeleteOldSessions(View(s1, t), cutoff),
                           failAt = "delete_sessions")
              ELSE s1
    IN  IF s2.ok THEN Commit(s2, t, failAt = "commit") ELSE s2

----------------------------------------------------------------------------
(* The ledger's read queries *)

RECURSIVE Total(_, _)
Total(rows, field) ==
    IF rows = {} THEN 0
    ELSE LET r == CHOOSE x \in rows : TRUE
         IN  r[field] + Total(rows \ {r}, field)

\* round(n / d, 1) for d > 0, in tenths: the integer nearest to 10 * n / d,
\* the even one of the two when n / d lies halfway (Python rounds half to
\* even; a halfway value that is not a binary fraction may go either way).
Round1(n, d) ==
    LET q == (10 * n) \div d
        r == (10 * n) - q * d
    IN  IF 2 * r < d THEN q
        ELSE IF 2 * r > d THEN q + 1
        ELSE IF q % 2 = 0 THEN q ELSE q + 1

\* The "saved" and "ratio" entries of a snapshot; ratio is in tenths of a percent.
Snapshot(commands, original, compressed) ==
    [commands |-> commands, original |-> original, compressed |-> compressed,
     saved |-> original - compressed,
     ratio |-> IF original > 0
               THEN Round1((original - compressed) * 100, original)
               ELSE 0]

get_session_stats(v, sid) ==
    LET rows == {r \in v.sessions : r.session_id = sid}
    IN  IF rows = {} THEN [commands |-> 0, original |-> 0, compressed |-> 0,
                           saved |-> 0, ratio |-> 0]
        ELSE LET row == CHOOSE r \in rows : TRUE
             IN  Snapshot(row.command_count, row.total_original,
                          row.total_compressed)

get_lifetime_stats(v) ==
    [sessions |-> Cardinality(v.sessions)]
    @@ Snapshot(Total(v.sessions, "command_count"),
                Total(v.sessions, "total_original"),
                Total(v.sessions, "total_compressed"))

\* SELECT processor, COUNT(*), SUM(original_size - compressed_size)
\* FROM savings GROUP BY processor
ProcessorGroups(v) ==
    {[processor |-> p,
      count |-> Cardinality({r \in v.savings : r.processor = p}),
      saved |-> Total({r \in v.savings : r.processor = p}, "original_size")
                - Total({r \in v.savings : r.processor = p}, "compressed_size")]
     : p \in {r.processor : r \in v.savings}}

\* ORDER BY total_saved DESC LIMIT ?: the lists the query may return (groups
\* with equal totals come in either order).
get_top_processors(v, limit) ==
    LET G == ProcessorGroups(v)
        n == Min(limit, Cardinality(G))
    IN  {s \in [1..n -> G] :
            /\ \A i, j \in 1..n : i < j => s[i] # s[j] /\ s[i].saved >= s[j].saved
            /\ \A g \in G : (\A i \in 1..n : s[i] # g)
                              => \A i \in 1..n : s[i].saved >= g.saved}

----------------------------------------------------------------------------
(* The generic processor's light clean pass, on texts as character sequences *)

MaxTextLen == 4         \* characters in a text given to clean

ESC == "ESC"            \* \x1b
BEL == "BEL"            \* \x07
LF == "LF"              \* \n
CR == "CR"              \* \r
SP == " "

Chars == {"a", "m", "1", SP, LF, CR, ESC, "[", "]", BEL}

Texts == UNION {[1..n -> Chars] : n \in 0..MaxTextLen}

IsParam(c) == c \in {"0", "1", "2", "3", "4", "5", "6", "7", "8", "9", ";"}
IsLetter(c) ==
    c \in {"a", "b", "c", "d", "e", "f", "g", "h", "i", "j", "k", "l", "m",
           "n", "o", "p", "q", "r", "s", "t", "u", "v", "w", "x", "y", "z",
           "A", "B", "C", "D", "E", "F", "G", "H", "I", "J", "K", "L", "M",
           "N", "O", "P", "Q", "R", "S", "T", "U", "V", "W", "X", "Y", "Z"}
IsSpace(c) == c \in {SP, "\t", LF, CR}

\* str.splitlines(): a line ends at \n, \r or \r\n; the text after the last
\* line end is a line only if it is not empty.
RECURSIVE SplitFrom(_, _, _)
SplitFrom(t, i, acc) ==
    LET ends == {k \in i..Len(t) : t[k] = LF \/ t[k] = CR}
        e == CHOOSE k \in ends : \A j \in ends : k <= j
    IN  IF i > Len(t) THEN acc
        ELSE IF ends = {} THEN Append(acc, SubSeq(t, i, Len(t)))
        ELSE SplitFrom(t, IF t[e] = CR /\ e < Len(t) /\ t[e + 1] = LF THEN e + 2 ELSE e + 1,
                       Append(acc, SubSeq(t, i, e - 1)))

splitlines(t) == SplitFrom(t, 1, <<>>)

\* "\n".join(lines)
RECURSIVE join(_)
join(lines) ==
    IF lines = <<>> THEN <<>>
    ELSE IF Len(lines) = 1 THEN lines[1]
    ELSE lines[1] \o <<LF>> \o join(Tail(lines))

\* The end (exclusive) of a match of ANSI_RE that starts at i, or 0:
\* \x1b\[[0-9;]*[a-zA-Z]  |  \x1b\].*?\x07
RECURSIVE SkipParams(_, _)
SkipParams(line, j) ==
    IF j <= Len(line) /\ IsParam(line[j]) THEN SkipParams(line, j + 1) ELSE j

RECURSIVE FirstBel(_, _)
FirstBel(line, j) ==
    IF j > Len(line) THEN 0
    ELSE IF line[j] = BEL THEN j
    ELSE FirstBel(line, j + 1)

AnsiMatchEnd(line, i) ==
    IF line[i] # ESC \/ i = Len(line) THEN 0
    ELSE IF line[i + 1] = "["
         THEN LET j == SkipParams(line, i + 2)
              IN  IF j <= Len(line) /\ IsLetter(line[j]) THEN j + 1 ELSE 0
    ELSE IF line[i + 1] = "]"
         THEN LET j == FirstBel(line, i + 2)
              IN  IF j = 0 THEN 0 ELSE j + 1
    ELSE 0

\* ANSI_RE.sub("", line): the matches are found left to right in the line as
\* it was given, and removed.
RECURSIVE AnsiSubFrom(_, _)
AnsiSubFrom(line, i) ==
    IF i > Len(line) THEN <<>>
    ELSE LET e == AnsiMatchEnd(line, i)
         IN  IF e = 0 THEN <<line[i]>> \o AnsiSubFrom(line, i + 1)
             ELSE AnsiSubFrom(line, e)

strip_ansi(lines) == [k \in 1..Len(lines) |-> AnsiSubFrom(lines[k], 1)]

\* line.strip() == ""
IsBlank(line) == \A k \in 1..Len(line) : IsSpace(line[k])

RECURSIVE CollapseFrom(_, _, _)
CollapseFrom(lines, k, prev_blank) ==
    IF k > Len(lines) THEN <<>>
    ELSE IF IsBlank(lines[k]) /\ prev_blank
         THEN CollapseFrom(lines, k + 1, prev_blank)
    ELSE <<lines[k]>> \o CollapseFrom(lines, k + 1, IsBlank(lines[k]))

collapse_blank_lines(lines) == CollapseFrom(lines, 1, FALSE)

RECURSIVE rstrip(_)
rstrip(line) ==
    IF line # <<>> /\ IsSpace(line[Len(line)])
    THEN rstrip(SubSeq(line, 1, Len(line) - 1))
    ELSE line

strip_trailing_whitespace(lines) == [k \in 1..Len(lines) |-> rstrip(lines[k])]

\* GenericProcessor.clean
clean(t) ==
    join(strip_trailing_whitespace(collapse_blank_lines(strip_ansi(splitlines(t)))))

----------------------------------------------------------------------------
(* The dispatch pipeline (section 4.2 of the specification) *)

DefaultMinInputLength == 200
DefaultMinCompressionRatio == 10        \* percent

Configs ==
    {[min_input_length |-> DefaultMinInputLength,
      min_compression_ratio |-> DefaultMinCompressionRatio],
     [min_input_length |-> 500, min_compression_ratio |-> 25]}

PipelineCommands ==
    {<<"pip", "list">>, <<"curl", "http">>, <<"terraform", "plan">>,
     <<"grep", "plan">>, <<"grep", "curl">>, <<"terraform", "list">>, <<"echo">>}

\* A text of the pipeline is known by where it comes from and its length.
RawOutputs == {[kind |-> "raw", len |-> n] : n \in {150, 200, 400, 600}}
Processed == {[kind |-> "processed", len |-> n] : n \in {181, 450, 700}}

PipelineInputs == [command : PipelineCommands, output : RawOutputs]

\* Processor.process(command, output): the output itself, another text, or
\* an error raised with a partial result at hand.
ProcessOutcomes(output) ==
    {[raised |-> FALSE, text |-> x] : x \in {output} \cup Processed}
    \cup {[raised |-> TRUE, text |-> [kind |-> "processed", len |-> 100]]}

\* The light clean pass removes characters or leaves the text as it is.
CleanOutcomes(x) ==
    {x} \cup (IF x.len >= 20 THEN {[kind |-> "cleaned", len |-> x.len - 20]} ELSE {})

\* The first processor, in registry order, whose can_handle is true (0: none).
RECURSIVE SelectFrom(_, _, _)
SelectFrom(instances, cmd, i) ==
    IF i > Len(instances) THEN 0
    ELSE IF can_handle(instances[i], cmd) THEN i
    ELSE SelectFrom(instances, cmd, i + 1)

SelectProcessor(instances, cmd) == SelectFrom(instances, cmd, 1)

GateIgnoresLength(cfg, original_length, compressed_length) ==
    (original_length - compressed_length) * 100
        >= cfg.min_compression_ratio * original_length

GateIgnoresRatio(cfg, original_length, compressed_length) ==
    original_length >= cfg.min_input_length

\* original_length >= min_input_length and
\* (original_length - compressed_length) / original_length >= min_compression_ratio
AcceptanceGate(cfg, original_length, compressed_length) ==
    /\ original_length >= cfg.min_input_length
    /\ (original_length - compressed_length) * 100
           >= cfg.min_compression_ratio * original_length

KeepPartial(output, partial) == partial

\* What the pipeline returns when process raised.
OnProcessError(output, partial) == output

\* One invocation up to the ledger write: selection, process, light clean, gate.
compress(cfg, instances, cmd, output, outcome, cleaned) ==
    LET i == SelectProcessor(instances, cmd)
    IN  IF i = 0
        THEN [invoked |-> <<>>, raised |-> FALSE, compressed |-> output,
              returned |-> output, accepted |-> FALSE]
        ELSE IF outcome.raised
        THEN [invoked |-> <<instances[i].name>>, raised |-> TRUE,
              compressed |-> outcome.text,
              returned |-> OnProcessError(output, outcome.text),
              accepted |-> FALSE]
        ELSE IF AcceptanceGate(cfg, output.len, cleaned.len)
        THEN [invoked |-> <<instances[i].name>>, raised |-> FALSE,
              compressed |-> cleaned, returned |-> cleaned, accepted |-> TRUE]
        ELSE [invoked |-> <<instances[i].name>>, raised |-> FALSE,
              compressed |-> cleaned, returned |-> output, accepted |-> FALSE]

RecordFailures == {"none", "insert", "upsert", "commit"}
PruneFailures == {"none", "delete_savings", "delete_sessions", "commit"}

Store == [db |-> db, txn |-> txn]

NoCall ==
    [invoked |-> <<>>, raised |-> FALSE, compressed |-> [kind |-> "none", len |-> 0],
     returned |-> [kind |-> "none", len |-> 0], accepted |-> FALSE,
     command |-> <<>>, output |-> [kind |-> "none", len |-> 0],
     storage_error |-> FALSE, before |-> EmptyDb, after |-> EmptyDb, calls |-> 0]

OpenTracker(sid) ==
    [state |-> "open", session_id |-> sid, prune_days |-> DefaultPruneDays]
NoTracker == [state |-> "none", session_id |-> "s1", prune_days |-> DefaultPruneDays]

NoAudit ==
    [op |-> "none", tracker |-> "t1", ok |-> TRUE, before |-> [db |-> EmptyDb, txn |-> NoTxn],
     args |-> [command |-> <<>>, processor |-> "generic", original_size |-> 0,
               compressed_size |-> 0],
     session |-> "s1",
     history |-> {}, expired |-> {}]

\* The record of the last record_saving call is dropped when another
\* operation follows it; the history of the run is kept.
Forget(a) == [NoAudit EXCEPT !.history = a.history, !.expired = a.expired]

\* The invocations explored: one command with every output and every result
\* of process and clean, every other command with one output and one result.
Exercised(in, outcome, cleaned) ==
    \/ in.command = <<"echo">>
    \/ /\ in.output.len = 600
       /\ ~outcome.raised
       /\ outcome.text.len = 450
       /\ cleaned = outcome.text

\* The pipeline on one command and its output, with the ledger write of an
\* accepted compression.
Compress ==
    /\ call.calls < MaxPipelineCalls
    /\ \E in \in PipelineInputs, failAt \in {"none", "upsert"} :
       \E outcome \in ProcessOutcomes(in.output) :
       \E cleaned \in CleanOutcomes(outcome.text) :
          /\ Exercised(in, outcome, cleaned)
          /\ LET cmd == in.command
                 output == in.output
                 r == compress(config, registry.instances, cmd, output, outcome, cleaned)
                 a == [command |-> cmd,
                       processor |-> IF r.invoked = <<>> THEN "none" ELSE r.invoked[1],
                       original_size |-> output.len,
                       compressed_size |-> r.compressed.len]
                 S == IF r.accepted
                      THEN record_saving(Store, trackers["t1"], "t1", a, now, failAt)
                      ELSE [ok |-> TRUE, db |-> db, txn |-> txn]
             IN  /\ call' = r @@ [command |-> cmd, output |-> output,
                                  storage_error |-> ~S.ok,
                                  before |-> db, after |-> S.db,
                                  calls |-> call.calls + 1]
                 /\ db' = S.db
                 /\ txn' = S.txn
    /\ UNCHANGED <<classes, registry, config, trackers, now, audit, text, once,
                   twice, pc, lock, done>>

----------------------------------------------------------------------------
(* Registry construction and the light clean pass as actions *)

DiscoverProcessors ==
    /\ \E order \in Orders(PackagedProcessors \cup CustomProcessors, MaxRegistered) :
          /\ classes' = order
          /\ registry' = discover_processors(order)
    /\ UNCHANGED <<config, call, db, txn, trackers, now, audit, text, once, twice,
                   pc, lock, done>>

LightClean ==
    /\ ~once.ran
    /\ once' = [ran |-> TRUE, out |-> clean(text)]
    /\ twice' = clean(clean(text))
    /\ UNCHANGED <<classes, registry, config, call, db, txn, trackers, now, audit,
                   text, pc, lock, done>>

----------------------------------------------------------------------------
(* The ledger's operations, one call at a time *)

CmdOfLen(n) == [i \in 1..n |-> "c"]

RecordInputs ==
    {[command |-> CmdOfLen(MaxCommandChars + 1), processor |-> "generic",
      original_size |-> 300, compressed_size |-> 100],
     [command |-> CmdOfLen(4), processor |-> "search",
      original_size |-> 0, compressed_size |-> 0]}

TopLimit == 5

\* The session a new tracker is given (TOKEN_SAVER_SESSION).
SessionOf(t) == IF t = "t1" THEN "s1" ELSE "s2"

\* SavingsTracker(session_id, prune_days): open the connection, create the
\* tables if they are missing, prune. The store file is taken to be intact.
Construct(t) ==
    /\ trackers[t].state \in {"none", "closed"}
    /\ \E failAt \in PruneFailures :
          LET tr == OpenTracker(SessionOf(t))
              S == maybe_prune(Store, tr, t, now, failAt)
              old == {h \in audit.history : h.timestamp < now - tr.prune_days}
          IN  /\ trackers' = [trackers EXCEPT ![t] = tr]
              /\ db' = S.db
              /\ txn' = S.txn
              /\ audit' = [Forget(audit) EXCEPT
                              !.expired = IF S.ok THEN @ \cup old ELSE @]
    /\ UNCHANGED <<classes, registry, config, call, now, text, once, twice, pc,
                   lock, done>>

\* tracker.record_saving(...)
Record(t) ==
    /\ trackers[t].state # "none"
    /\ View(Store, t).nextId <= MaxLedgerRows
    /\ \E a \in RecordInputs, failAt \in RecordFailures :
          LET S == record_saving(Store, trackers[t], t, a, now, failAt)
              row == [id |-> View(Store, t).nextId, timestamp |-> now,
                      session_id |-> trackers[t].session_id,
                      processor |-> a.processor,
                      original_size |-> a.original_size,
                      compressed_size |-> a.compressed_size]
          IN  /\ db' = S.db
              /\ txn' = S.txn
              /\ audit' = [audit EXCEPT !.op = "record", !.tracker = t,
                                        !.ok = S.ok, !.before = Store,
                                        !.args = a,
                                        !.session = trackers[t].session_id,
                                        !.history = IF S.ok THEN @ \cup {row} ELSE @]
    /\ UNCHANGED <<classes, registry, config, call, trackers, now, text, once,
                   twice, pc, lock, done>>

\* tracker.close(): the connection's uncommitted changes are dropped.
Close(t) ==
    /\ trackers[t].state = "open"
    /\ trackers' = [trackers EXCEPT ![t].state = "closed"]
    /\ txn' = IF txn.owner = t THEN NoTxn ELSE txn
    /\ audit' = Forget(audit)
    /\ UNCHANGED <<classes, registry, config, call, db, now, text, once, twice,
                   pc, lock, done>>

\* Time passes.
Tick ==
    /\ \E d \in ClockSteps : now + d <= MaxTime /\ now' = now + d
    /\ audit' = Forget(audit)
    /\ UNCHANGED <<classes, registry, config, call, db, txn, trackers, text, once,
                   twice, pc, lock, done>>

----------------------------------------------------------------------------
(* The ledger's operations statement by statement, called by several threads *)

MaxCalls == 2           \* record calls the threads make in all

Threads == {"A", "B"}

ThreadInputs ==
    {[command |-> CmdOfLen(4), processor |-> "generic",
      original_size |-> 300, compressed_size |-> 200],
     [command |-> CmdOfLen(4), processor |-> "search",
      original_size |-> 700, compressed_size |-> 100]}

IdlePc ==
    [at |-> "idle", tracker |-> "t1", session |-> "s1", ok |-> TRUE, t0 |-> 0,
     args |-> [command |-> <<>>, processor |-> "generic", original_size |-> 0,
               compressed_size |-> 0]]

NoLock == [owner |-> "none", depth |-> 0]

LockIgnored(l, th) == TRUE

\* threading.RLock: free, or held by the calling thread.
LockFree(l, th) == l.owner \in {"none", th}

\* The record calls made so far, returned or not.
RecordCalls ==
    Cardinality({c \in Threads \X (1..MaxCalls) : c[2] <= Len(done[c[1]])})
    + Cardinality({th \in Threads : pc[th].at \notin {"idle", "read_acquire",
                                                      "read_select", "read_release"}})

\* record_saving is entered: now = time.time() is read before the lock is taken.
BeginRecord(th) ==
    /\ pc[th].at = "idle"
    /\ RecordCalls < MaxCalls
    /\ \E t \in Trackers, a \in ThreadInputs :
          pc' = [pc EXCEPT ![th] = [at |-> "rec_acquire", tracker |-> t,
                                    session |-> trackers[t].session_id,
                                    ok |-> TRUE, t0 |-> now, args |-> a]]
    /\ UNCHANGED <<classes, registry, config, call, db, txn, trackers, now, audit,
                   text, once, twice, lock, done>>

\* get_session_stats is entered.
BeginRead(th) ==
    /\ pc[th].at = "idle"
    /\ \E t \in Trackers, sid \in Sids :
          pc' = [pc EXCEPT ![th] = [IdlePc EXCEPT !.at = "read_acquire",
                                                  !.tracker = t, !.session = sid]]
    /\ UNCHANGED <<classes, registry, config, call, db, txn, trackers, now, audit,
                   text, once, twice, lock, done>>

\* with self._lock:
AcquireLock(th) ==
    /\ pc[th].at \in {"rec_acquire", "read_acquire"}
    /\ LockFree(lock, th)
    /\ lock' = [owner |-> th, depth |-> lock.depth + 1]
    /\ pc' = [pc EXCEPT ![th].at = IF @ = "rec_acquire" THEN "rec_insert"
                                   ELSE "read_select"]
    /\ UNCHANGED <<classes, registry, config, call, db, txn, trackers, now, audit,
                   text, once, twice, done>>

\* One statement of the try block: the INSERT, the upsert or the commit.
Statement(th) ==
    /\ pc[th].at \in {"rec_insert", "rec_upsert", "rec_commit"}
    /\ \E fails \in BOOLEAN :
          LET p == pc[th]
              t == p.tracker
              s0 == [ok |-> TRUE, db |-> db, txn |-> txn]
              S == CASE p.at = "rec_insert" ->
                          Execute(s0, t,
                                  InsertSaving(View(s0, t), p.t0, p.session,
                                               p.args.command, p.args.processor,
                                               p.args.original_size,
                                               p.args.compressed_size),
                                  fails)
                     [] p.at = "rec_upsert" ->
                          Execute(s0, t,
                                  UpsertSession(View(s0, t), p.t0, p.session,
                                                p.args.original_size,
                                                p.args.compressed_size),
                                  fails)
                     [] OTHER -> Commit(s0, t, fails)
          IN  /\ db' = S.db
              /\ txn' = S.txn
              /\ pc' = [pc EXCEPT ![th].ok = S.ok,
                                  ![th].at = IF ~S.ok THEN "rec_rollback"
                                             ELSE IF p.at = "rec_insert" THEN "rec_upsert"
                                             ELSE IF p.at = "rec_upsert" THEN "rec_commit"
                                             ELSE "rec_release"]
    /\ UNCHANGED <<classes, registry, config, call, trackers, now, audit, text,
                   once, twice, lock, done>>

\* except sqlite3.Error: self.conn.rollback()
RollbackStep(th) ==
    /\ pc[th].at = "rec_rollback"
    /\ txn' = Rollback(Store, pc[th].tracker).txn
    /\ pc' = [pc EXCEPT ![th].at = "rec_release"]
    /\ UNCHANGED <<classes, registry, config, call, db, trackers, now, audit, text,
                   once, twice, lock, done>>

\* The SELECT of get_session_stats: it reads the tables and changes nothing.
SelectStep(th) ==
    /\ pc[th].at = "read_select"
    /\ pc' = [pc EXCEPT ![th].at = "read_release"]
    /\ UNCHANGED <<classes, registry, config, call, db, txn, trackers, now, audit,
                   text, once, twice, lock, done>>

\* The with block is left and the call returns.
ReleaseLock(th) ==
    /\ pc[th].at \in {"rec_release", "read_release"}
    /\ lock' = IF lock.depth <= 1 THEN NoLock ELSE [lock EXCEPT !.depth = @ - 1]
    /\ done' = IF pc[th].at = "rec_release"
               THEN [done EXCEPT ![th] = Append(@, [session |-> pc[th].session,
                                                    args |-> pc[th].args,
                                                    ok |-> pc[th].ok])]
               ELSE done
    /\ pc' = [pc EXCEPT ![th] = IdlePc]
    /\ UNCHANGED <<classes, registry, config, call, db, txn, trackers, now, audit,
                   text, once, twice>>

----------------------------------------------------------------------------
(* The specifications *)

InstantiationOrders(S) ==
    {o \in [1..Cardinality(S) -> S] : \A i, j \in 1..Cardinality(S) : i # j => o[i] # o[j]}

NoRegistry == [status |-> "none", instances |-> <<>>]
NoConfig == CHOOSE c \in Configs : c.min_input_length = DefaultMinInputLength
NoClean == [ran |-> FALSE, out |-> <<>>]

LedgerIdle ==
    /\ db = EmptyDb
    /\ txn = NoTxn
    /\ now = 0
    /\ audit = NoAudit

ThreadsIdle ==
    /\ pc = [th \in Threads |-> IdlePc]
    /\ lock = NoLock
    /\ done = [th \in Threads |-> <<>>]

CleanIdle == text = <<>> /\ once = NoClean /\ twice = <<>>

PipelineIdle == config = NoConfig /\ call = NoCall

RegistryIdle == classes = <<>> /\ registry = NoRegistry

\* Registry construction on every set of processor classes.
RegistryInit ==
    /\ RegistryIdle /\ PipelineIdle /\ CleanIdle /\ ThreadsIdle /\ LedgerIdle
    /\ trackers = [t \in Trackers |-> NoTracker]

RegistryNext == DiscoverProcessors

SpecRegistry == RegistryInit /\ [][RegistryNext]_vars

\* The pipeline over the packaged processors, with one open tracker.
PipelineInit ==
    /\ classes = <<>>
    /\ \E order \in InstantiationOrders(PackagedProcessors) :
          registry = discover_processors(order)
    /\ config \in Configs
    /\ call = NoCall
    /\ CleanIdle /\ ThreadsIdle /\ LedgerIdle
    /\ trackers = [t \in Trackers |-> IF t = "t1" THEN OpenTracker("s1") ELSE NoTracker]

PipelineNext == Compress

SpecPipeline == PipelineInit /\ [][PipelineNext]_vars

\* The light clean pass on every text.
CleanInit ==
    /\ RegistryIdle /\ PipelineIdle /\ ThreadsIdle /\ LedgerIdle
    /\ trackers = [t \in Trackers |-> NoTracker]
    /\ text \in Texts
    /\ once = NoClean
    /\ twice = <<>>

CleanNext == LightClean

SpecClean == CleanInit /\ [][CleanNext]_vars

\* The ledger: trackers are constructed, used and closed as time passes.
LedgerInit ==
    /\ RegistryIdle /\ PipelineIdle /\ CleanIdle /\ ThreadsIdle /\ LedgerIdle
    /\ trackers = [t \in Trackers |-> NoTracker]

LedgerNext ==
    \/ \E t \in Trackers : Construct(t)
    \/ \E t \in Trackers : Record(t)
    \/ \E t \in Trackers : Close(t)
    \/ Tick

SpecLedger == LedgerInit /\ [][LedgerNext]_vars

\* The ledger between two store constructions: the trackers are open.
SessionInit ==
    /\ RegistryIdle /\ PipelineIdle /\ CleanIdle /\ ThreadsIdle /\ LedgerIdle
    /\ \E sid \in Sids :
          trackers = [t \in Trackers |-> IF t = "t1" THEN OpenTracker("s1")
                                         ELSE OpenTracker(sid)]

SessionNext ==
    \/ \E t \in Trackers : Record(t)
    \/ \E t \in Trackers : Close(t)
    \/ Tick

SpecSession == SessionInit /\ [][SessionNext]_vars

\* The threads of one process on open trackers.
ThreadsNext ==
    \E th \in Threads :
        \/ BeginRecord(th)
        \/ BeginRead(th)
        \/ AcquireLock(th)
        \/ Statement(th)
        \/ RollbackStep(th)
        \/ SelectStep(th)
        \/ ReleaseLock(th)

SpecThreads == SessionInit /\ [][ThreadsNext]_vars

Spec == SpecLedger

----------------------------------------------------------------------------
(* The claims *)

Called == call.calls > 0

\* The gate as the specification words it, on the sizes of the last call.
GatePasses ==
    /\ ~call.raised
    /\ call.output.len >= config.min_input_length
    /\ (call.output.len - call.compressed.len) * 100
           >= config.min_compression_ratio * call.output.len

\* The last call wrote exactly one record, with the call's sizes.
OneRecordWritten ==
    /\ call.before.savings \subseteq call.after.savings
    /\ \E r \in call.after.savings \ call.before.savings :
          /\ call.after.savings = call.before.savings \cup {r}
          /\ r.original_size = call.output.len
          /\ r.compressed_size = call.compressed.len

\* C1: when process of the selected processor raises, the pipeline returns
\* the original output itself, not the partial result, and the ledger is
\* left as it was.
C1_FailOpen ==
    (Called /\ call.raised)
        => /\ call.returned = call.output
           /\ call.after = call.before
           /\ db = call.before
           /\ txn = NoTxn

C1_Witness ==
    /\ Called /\ call.raised
    /\ call.invoked # <<>>
    /\ call.compressed # call.output
    /\ AcceptanceGate(config, call.output.len, call.compressed.len)

\* C2 as claimed: the compressed text is returned and exactly one ledger
\* record is written if and only if the gate passes; in every other case the
\* original output is returned and no record is written.
C2_GateWritesOneRecord ==
    Called =>
        IF GatePasses
        THEN call.returned = call.compressed /\ OneRecordWritten
        ELSE call.returned = call.output /\ call.after = call.before

\* C2 as amended: the compressed text is returned and record is called once
\* if and only if the gate passes; that call writes exactly one record unless
\* a storage error makes it write none; in every other case the original
\* output is returned and no record is written.
C2_Gate ==
    Called =>
        IF GatePasses
        THEN /\ call.returned = call.compressed
             /\ IF call.storage_error THEN call.after = call.before
                ELSE OneRecordWritten
        ELSE call.returned = call.output /\ call.after = call.before

C2_Witness ==
    /\ Called /\ GatePasses /\ ~call.storage_error
    /\ call.output.len = DefaultMinInputLength
    /\ call.compressed.len = 180
    /\ OneRecordWritten

\* C3: process is invoked on exactly one processor, the one of lowest
\* priority number among the packaged processors that can handle the
\* command; the registry lists the priorities 15, 30, 33, 35, 999 in this
\* order, and the last one handles every command.
C3_FirstMatch ==
    /\ [i \in 1..Len(registry.instances) |-> registry.instances[i].priority]
           = <<15, 30, 33, 35, 999>>
    /\ Called =>
          /\ Len(call.invoked) = 1
          /\ \E p \in PackagedProcessors :
                /\ p.name = call.invoked[1]
                /\ can_handle(p, call.command)
                /\ \A q \in PackagedProcessors :
                      q.priority < p.priority => ~can_handle(q, call.command)

C3_Witness ==
    /\ Called
    /\ call.command = <<"grep", "curl">>
    /\ call.invoked = <<"network">>

\* C4: the light clean pass is idempotent: clean(clean(t)) = clean(t).
C4_CleanIdempotent == once.ran => twice = once.out

\* Every command of the model is handled.
Unconditional(p) == \A cmd \in PipelineCommands : can_handle(p, cmd)

Discovered == registry.status # "none"

LastClass == SortByPriority(classes)[Len(classes)]

\* C5: registry construction fails on every processor set whose
\* priority-sorted last element has a priority other than 999 or a can_handle
\* that is not true of every command.
C5_RejectsBadLast ==
    (Discovered /\ classes # <<>>)
        => ((LastClass.priority # 999 \/ ~Unconditional(LastClass))
                => registry.status = "error")

\* C6: a list returned by registry construction holds exactly one processor
\* of priority 999, which handles every command and is the last element.
C6_FallbackUnique ==
    registry.status = "ok"
        => LET l == registry.instances
           IN  /\ Cardinality({i \in 1..Len(l) : l[i].priority = 999}) = 1
               /\ l[Len(l)].priority = 999
               /\ Unconditional(l[Len(l)])

\* The successful record calls of the run made for session sid.
HistoryOf(sid) == {h \in audit.history : h.session_id = sid}

\* ratio is saved / original * 100 rounded to one decimal: as tenths of a
\* percent it lies within half a tenth of the exact quotient.
RoundedRatio(ratio, saved, original) ==
    IF original = 0 THEN ratio = 0
    ELSE LET e == ratio * original - 1000 * saved
         IN  2 * (IF e < 0 THEN -e ELSE e) <= original

\* C7: after N successful record calls in a session, with sizes (o_i, c_i),
\* get_session_stats reports commands = N, original = sum o_i, compressed =
\* sum c_i, saved = sum o_i - sum c_i and ratio = saved / sum o_i * 100 rounded
\* to one decimal; with no record, or with sum o_i = 0, the ratio is 0.
C7_SessionSnapshot ==
    \A t \in Trackers, sid \in Sids :
        LET stats == get_session_stats(View(Store, t), sid)
            H == HistoryOf(sid)
            o == Total(H, "original_size")
            c == Total(H, "compressed_size")
        IN  /\ stats.commands = Cardinality(H)
            /\ stats.original = o
            /\ stats.compressed = c
            /\ stats.saved = o - c
            /\ RoundedRatio(stats.ratio, o - c, o)

C7_Witness ==
    \E sid \in Sids :
        /\ audit.op = "record" /\ audit.ok /\ audit.session = sid
        /\ Cardinality(HistoryOf(sid)) = 2
        /\ get_session_stats(db, sid) =
              [commands |-> 2, original |-> 600, compressed |-> 200,
               saved |-> 400, ratio |-> 667]

\* The records a query may count: none that was older than the retention
\* window at a store construction, all that are within the window.
Retained ==
    {R \in SUBSET (audit.history \ audit.expired) :
        \A h \in audit.history : h.timestamp >= now - DefaultPruneDays => h \in R}

SessionOver(R, sid) ==
    LET H == {h \in R : h.session_id = sid}
    IN  Snapshot(Cardinality(H), Total(H, "original_size"),
                 Total(H, "compressed_size"))

LifetimeOver(R) ==
    [sessions |-> Cardinality({h.session_id : h \in R})]
    @@ Snapshot(Cardinality(R), Total(R, "original_size"),
                Total(R, "compressed_size"))

\* C8: a record older than the retention window at a store construction
\* contributes to no query made after the construction (session snapshot,
\* lifetime snapshot, top processors), and a record within the window
\* contributes to all of them.
C8_Retention ==
    /\ \A sid \in Sids :
          \E R \in Retained : get_session_stats(db, sid) = SessionOver(R, sid)
    /\ \E R \in Retained : get_lifetime_stats(db) = LifetimeOver(R)
    /\ \E R \in Retained :
          get_top_processors(db, TopLimit)
              = get_top_processors([savings |-> R], TopLimit)

\* The record_saving call that has just returned, and the tables its
\* connection saw when it was made.
Recorded == audit.op = "record"

ViewBefore == View(audit.before, audit.tracker)

AppendedRecord ==
    [id |-> ViewBefore.nextId, timestamp |-> now, session_id |-> audit.session,
     command |-> SubSeq(audit.args.command, 1,
                        IF Len(audit.args.command) < 500
                        THEN Len(audit.args.command) ELSE 500),
     processor |-> audit.args.processor,
     original_size |-> audit.args.original_size,
     compressed_size |-> audit.args.compressed_size,
     platform |-> Platform]

UpsertApplied ==
    LET old == {r \in ViewBefore.sessions : r.session_id = audit.session}
        new == {r \in db.sessions : r.session_id = audit.session}
    IN  /\ {r \in db.sessions : r.session_id # audit.session}
             = ViewBefore.sessions \ old
        /\ \E r \in new :
              /\ new = {r}
              /\ IF old = {}
                 THEN /\ r.command_count = 1
                      /\ r.total_original = audit.args.original_size
                      /\ r.total_compressed = audit.args.compressed_size
                 ELSE \E q \in old :
                      /\ r.command_count = q.command_count + 1
                      /\ r.total_original
                            = q.total_original + audit.args.original_size
                      /\ r.total_compressed
                            = q.total_compressed + audit.args.compressed_size

\* C9: a record call returns normally and either appends one record, its
\* command cut to 500 characters, and applies the session upsert (count 1 and
\* the call's sizes if the session is absent, else the sizes added and the
\* count incremented), both committed together, or, on a storage error
\* (busy store and closed store included), changes neither table and leaves
\* nothing of the call pending.
C9_RecordAtomic ==
    Recorded =>
        /\ txn.owner # audit.tracker
        /\ IF audit.ok
           THEN /\ db.savings = ViewBefore.savings \cup {AppendedRecord}
                /\ AppendedRecord \notin ViewBefore.savings
                /\ UpsertApplied
           ELSE db = audit.before.db

C9_Witness ==
    /\ Recorded /\ audit.ok
    /\ Len(audit.args.command) > MaxCommandChars
    /\ Len(AppendedRecord.command) = MaxCommandChars
    /\ \E q \in ViewBefore.sessions : q.session_id = audit.session

C9_WitnessError ==
    /\ Recorded /\ ~audit.ok
    /\ audit.before.txn.owner \notin {"none", audit.tracker}

InLedger(th) ==
    pc[th].at \in {"rec_insert", "rec_upsert", "rec_commit", "rec_rollback",
                   "rec_release", "read_select", "read_release"}

\* The record calls that returned without a storage error, as (thread, index).
Succeeded(sid) ==
    {c \in Threads \X (1..MaxCalls) :
        /\ c[2] <= Len(done[c[1]])
        /\ done[c[1]][c[2]].ok
        /\ done[c[1]][c[2]].session = sid}

RECURSIVE SumDone(_, _)
SumDone(C, field) ==
    IF C = {} THEN 0
    ELSE LET c == CHOOSE x \in C : TRUE
         IN  done[c[1]][c[2]].args[field] + SumDone(C \ {c}, field)

Quiescent == \A th \in Threads : pc[th].at = "idle"

\* C10: ledger operations of several threads run one at a time under the
\* process-wide lock, so no other thread's ledger operation comes between a
\* thread's append and its upsert, commit or rollback, and once all calls have
\* returned each session aggregate is the sum of the successful record calls
\* of the session.
C10_ThreadSafety ==
    /\ \A a, b \in Threads : (a # b /\ InLedger(a)) => ~InLedger(b)
    /\ Quiescent =>
          \A sid \in Sids :
              LET stats == get_session_stats(db, sid)
              IN  /\ txn = NoTxn
                  /\ stats.commands = Cardinality(Succeeded(sid))
                  /\ stats.original = SumDone(Succeeded(sid), "original_size")
                  /\ stats.compressed = SumDone(Succeeded(sid), "compressed_size")
                  /\ Cardinality({r \in db.savings : r.session_id = sid})
                        = Cardinality(Succeeded(sid))

C10_Witness ==
    /\ Quiescent
    /\ \E sid \in Sids :
          /\ Cardinality(Succeeded(sid)) = Cardinality(Threads)
          /\ get_session_stats(db, sid).commands = Cardinality(Threads)

----------------------------------------------------------------------------
(* The generic compressor, GenericProcessor.process, on lines as character
   sequences *)

MaxGenericLines == 6    \* lines in an output given to the generic compressor

IsDigit(c) == c \in {"0", "1", "2", "3", "4", "5", "6", "7", "8", "9"}

RECURSIVE lstrip(_)
lstrip(line) ==
    IF line # <<>> /\ IsSpace(line[1]) THEN lstrip(Tail(line)) ELSE line

\* str.strip()
strip(line) == lstrip(rstrip(line))

\* str(n) of an integer
RECURSIVE Digits(_)
Digits(n) ==
    IF n < 0 THEN <<"-">> \o Digits(-n)
    ELSE IF n < 10
    THEN <<(<<"0", "1", "2", "3", "4", "5", "6", "7", "8", "9">>)[n + 1]>>
    ELSE Digits(n \div 10) \o Digits(n % 10)

\* The literal lit stands in s at position i.
LitAt(s, i, lit) ==
    /\ i >= 1
    /\ i + Len(lit) - 1 <= Len(s)
    /\ \A k \in 1..Len(lit) : s[i + k - 1] = lit[k]

\* The end (exclusive) of the run of digits, or of white space, from i on.
RECURSIVE DigitsEnd(_, _)
DigitsEnd(s, i) ==
    IF i <= Len(s) /\ IsDigit(s[i]) THEN DigitsEnd(s, i + 1) ELSE i

RECURSIVE SpacesEnd(_, _)
SpacesEnd(s, i) ==
    IF i <= Len(s) /\ IsSpace(s[i]) THEN SpacesEnd(s, i + 1) ELSE i

DigitAt(s, i) == i >= 1 /\ i <= Len(s) /\ IsDigit(s[i])

\* The end (exclusive) of the match of _NUMERIC_RE, \d+(\.\d+)?, at the digit i.
NumberEnd(s, i) ==
    LET j == DigitsEnd(s, i)
    IN  IF LitAt(s, j, <<".">>) /\ DigitAt(s, j + 1) THEN DigitsEnd(s, j + 1) ELSE j

\* _NUMERIC_RE.sub("N", s)
RECURSIVE NumericSubFrom(_, _)
NumericSubFrom(s, i) ==
    IF i > Len(s) THEN <<>>
    ELSE IF IsDigit(s[i]) THEN <<"N">> \o NumericSubFrom(s, NumberEnd(s, i))
    ELSE <<s[i]>> \o NumericSubFrom(s, i + 1)

normalize_numbers(line) == NumericSubFrom(strip(line), 1)

CountDigits(s) == Cardinality({k \in 1..Len(s) : IsDigit(s[k])})

\* re.search(r"\d+(\.\d+)?%", s)
HasPercentage(s) == \E k \in 1..Len(s) : IsDigit(s[k]) /\ LitAt(s, k + 1, <<"%">>)

RateUnits ==
    {<<"K", "B">>, <<"M", "B">>, <<"G", "B">>, <<"B">>, <<"k", "B">>,
     <<"M", "i", "B">>, <<"G", "i", "B">>, <<"k">>, <<"M">>, <<"G">>}

\* re.search(r"\d+(\.\d+)?\s*(KB|MB|GB|B|kB|MiB|GiB|k|M|G)/s", s)
HasTransferRate(s) ==
    \E k \in 1..Len(s) :
        /\ IsDigit(s[k])
        /\ \E u \in RateUnits : LitAt(s, SpacesEnd(s, k + 1), u \o <<"/", "s">>)

\* re.search(r"(ETA|eta)\s+\d+", s)
HasEta(s) ==
    \E k \in 1..Len(s) :
        /\ LitAt(s, k, <<"E", "T", "A">>) \/ LitAt(s, k, <<"e", "t", "a">>)
        /\ SpacesEnd(s, k + 3) > k + 3
        /\ DigitAt(s, SpacesEnd(s, k + 3))

\* re.search(r"--:--:--|(\d+:){2}\d+", s)
HasTimePattern(s) ==
    \E k \in 1..Len(s) :
        \/ LitAt(s, k, <<"-", "-", ":", "-", "-", ":", "-", "-">>)
        \/ /\ IsDigit(s[k])
           /\ LitAt(s, DigitsEnd(s, k), <<":">>)
           /\ DigitAt(s, DigitsEnd(s, k) + 1)
           /\ LitAt(s, DigitsEnd(s, DigitsEnd(s, k) + 1), <<":">>)
           /\ DigitAt(s, DigitsEnd(s, DigitsEnd(s, k) + 1) + 1)

\* stripped.replace(" ", "")
NonWs(s) == SelectSeq(s, LAMBDA c : c # SP)

is_numeric_heavy(line) ==
    LET stripped == strip(line)
        numeric_chars == CountDigits(stripped)
    IN  /\ stripped # <<>>
        /\ \/ 4 * numeric_chars >= Len(stripped)
           \/ HasPercentage(stripped)
           \/ HasTransferRate(stripped)
           \/ HasEta(stripped)
           \/ HasTimePattern(stripped) /\ numeric_chars >= 5
           \/ NonWs(stripped) # <<>>
                 /\ 5 * CountDigits(NonWs(stripped)) >= 2 * Len(NonWs(stripped))

\* _PROGRESS_BAR_RE: a run of five or more bar characters (box-drawing and
\* block characters, named by their code points, and # = - >).
IsBarChar(c) ==
    c \in {"U+2501", "U+2588", "U+2593", "U+2591", "U+2592", "U+25A0", "U+25A1",
           "U+25CF", "U+25CB", "#", "=", "-", ">"}

Spinners ==
    {"U+280B", "U+2819", "U+2839", "U+2838", "U+283C", "U+2834", "U+2826",
     "U+2827", "U+2807", "U+280F", "U+28FE", "U+28FD", "U+28FB", "U+28BF",
     "U+287F", "U+28DF", "U+28EF", "U+28F7"}

RECURSIVE BarRunEnd(_, _)
BarRunEnd(s, i) ==
    IF i <= Len(s) /\ IsBarChar(s[i]) THEN BarRunEnd(s, i + 1) ELSE i

\* len(_PROGRESS_BAR_RE.search(s).group(0)), 0 when there is no match.
RECURSIVE BarMatchLen(_, _)
BarMatchLen(s, i) ==
    IF i > Len(s) THEN 0
    ELSE IF ~IsBarChar(s[i]) THEN BarMatchLen(s, i + 1)
    ELSE IF BarRunEnd(s, i) - i >= 5 THEN BarRunEnd(s, i) - i
    ELSE BarMatchLen(s, BarRunEnd(s, i))

IsProgressLine(line) ==
    LET stripped == strip(line)
    IN  \/ stripped # <<>> /\ 2 * BarMatchLen(stripped, 1) > Len(stripped)
        \/ Len(stripped) = 1 /\ stripped[1] \in Spinners

strip_progress_bars(lines) == SelectSeq(lines, LAMBDA line : ~IsProgressLine(line))

FlushUnannotated(result, line, count) == Append(result, line)

\* _flush
flush(result, line, count) ==
    IF count > 1
    THEN Append(result, line \o <<SP, "(", "x">> \o Digits(count) \o <<")">>)
    ELSE Append(result, line)

RECURSIVE RepeatedFrom(_, _, _, _, _)
RepeatedFrom(lines, k, current, count, result) ==
    IF k > Len(lines) THEN flush(result, current, count)
    ELSE IF lines[k] = current /\ strip(current) # <<>>
    THEN RepeatedFrom(lines, k + 1, current, count + 1, result)
    ELSE RepeatedFrom(lines, k + 1, lines[k], 1, flush(result, current, count))

collapse_repeated_lines(lines) ==
    IF lines = <<>> THEN lines ELSE RepeatedFrom(lines, 2, lines[1], 1, <<>>)

\* _flush_similar
flush_similar(result, group) ==
    IF Len(group) >= 5
    THEN result \o <<group[1],
                     <<SP, SP, ".", ".", ".", SP, "(">> \o Digits(Len(group) - 2)
                       \o <<SP, "s", "i", "m", "i", "l", "a", "r", SP,
                            "l", "i", "n", "e", "s", ")">>,
                     group[Len(group)]>>
    ELSE result \o group

RECURSIVE SimilarFrom(_, _, _, _, _)
SimilarFrom(lines, k, current, group, result) ==
    IF k > Len(lines) THEN flush_similar(result, group)
    ELSE IF /\ normalize_numbers(lines[k]) = normalize_numbers(current)
            /\ strip(current) # <<>>
            /\ Len(strip(current)) > 10
            /\ is_numeric_heavy(current)
    THEN SimilarFrom(lines, k + 1, current, Append(group, lines[k]), result)
    ELSE SimilarFrom(lines, k + 1, lines[k], <<lines[k]>>,
                     flush_similar(result, group))

collapse_similar_lines(lines) ==
    IF lines = <<>> THEN lines
    ELSE SimilarFrom(lines, 2, lines[1], <<lines[1]>>, <<>>)

\* The position a slice bound i denotes in a list of n elements.
SliceBound(i, n) == IF i < 0 THEN (IF n + i < 0 THEN 0 ELSE n + i) ELSE Min(i, n)

\* lines[:stop] and lines[start:]
SliceTo(lines, stop) == SubSeq(lines, 1, SliceBound(stop, Len(lines)))
SliceFrom(lines, start) == SubSeq(lines, SliceBound(start, Len(lines)) + 1, Len(lines))

TruncationMarker(removed, total) ==
    <<LF, ".", ".", ".", SP, "(">> \o Digits(removed)
    \o <<SP, "l", "i", "n", "e", "s", SP, "t", "r", "u", "n", "c", "a", "t", "e", "d", ",", SP>>
    \o Digits(total) \o <<SP, "t", "o", "t", "a", "l", ")", SP, ".", ".", ".", LF>>

\* _truncate_middle
truncate_middle(cfg, lines) ==
    LET keep_head == cfg.generic_keep_head
        keep_tail == cfg.generic_keep_tail
        total == Len(lines)
        removed == total - keep_head - keep_tail
    IN  SliceTo(lines, keep_head) \o <<TruncationMarker(removed, total)>>
        \o SliceFrom(lines, -keep_tail)

\* GenericProcessor.process, with the line list after each stage.
process_generic(cfg, output) ==
    LET ansi == strip_ansi(splitlines(output))
        bars == strip_progress_bars(ansi)
        blank == collapse_blank_lines(bars)
        repeated == collapse_repeated_lines(blank)
        similar == collapse_similar_lines(repeated)
        trimmed == strip_trailing_whitespace(similar)
        lines == IF Len(trimmed) > cfg.generic_truncate_threshold
                 THEN truncate_middle(cfg, trimmed) ELSE trimmed
    IN  [ran |-> TRUE, out |-> join(lines), blank |-> blank,
         repeated |-> repeated, similar |-> similar, trimmed |-> trimmed,
         lines |-> lines]

\* The configured truncation threshold and keep counts: each an integer of
\* its own, whatever the others are.
GenericConfigs ==
    {[generic_truncate_threshold |-> 3, generic_keep_head |-> k[1],
      generic_keep_tail |-> k[2]] : k \in {<<1, 1>>, <<3, 3>>, <<1, 0>>}}

Ok == <<"o", "k">>
Done == <<"d", "o", "n", "e">>
Bar == <<"=", "=", "=", "=", "=", ">">>
Heavy1 == <<"a", "b", "c", "d", "e", "f", "g", "h", "i", "j", SP, "1", "2", "3", "4", "5">>
Heavy2 == <<"a", "b", "c", "d", "e", "f", "g", "h", "i", "j", SP, "6", "7", "8", "9", "0">>
Light == <<"a", "b", "c", "d", "e", "f", "g", "h", "i", "j", SP, "1">>

\* Outputs of words and blank lines, and outputs of lines that differ in
\* their numbers only.
GenericOutputs ==
    {join(ls) : ls \in UNION {[1..n -> {Ok, Done, Bar, <<>>}]
                              \cup [1..n -> {Heavy1, Heavy2, Light}]
                                : n \in 0..MaxGenericLines}}

GenericCompress ==
    /\ ~once.ran
    /\ once' = process_generic(config, text)
    /\ UNCHANGED <<classes, registry, config, call, db, txn, trackers, now, audit,
                   text, twice, pc, lock, done>>

\* The generic compressor on every output, under every configuration.
GenericInit ==
    /\ RegistryIdle /\ ThreadsIdle /\ LedgerIdle
    /\ trackers = [t \in Trackers |-> NoTracker]
    /\ call = NoCall
    /\ config \in GenericConfigs
    /\ text \in GenericOutputs
    /\ once = NoClean
    /\ twice = <<>>

GenericNext == GenericCompress

SpecGeneric == GenericInit /\ [][GenericNext]_vars

SameLine(a, b) == a = b /\ strip(a) # <<>>

\* The maximal runs of identical non-blank lines, in order; a blank line is a
\* run of its own.
RECURSIVE RunsOf(_, _)
RunsOf(lines, i) ==
    IF i > Len(lines) THEN <<>>
    ELSE LET j == CHOOSE j \in i..Len(lines) :
                     /\ \A k \in i..j : SameLine(lines[k], lines[i]) \/ k = i
                     /\ j = Len(lines) \/ ~SameLine(lines[j + 1], lines[i])
         IN  <<[line |-> lines[i], n |-> j - i + 1]>> \o RunsOf(lines, j + 1)

Annotated(run) ==
    IF run.n >= 2
    THEN run.line \o <<SP, "(", "x">> \o Digits(run.n) \o <<")">>
    ELSE run.line

\* C13: the generic compressor replaces every maximal run of N >= 2
\* consecutive identical non-blank lines by the one line "<line> (xN)", leaves
\* single lines and blank lines as they are, and keeps the order of the lines.
C13_ExactDuplicates ==
    once.ran =>
        LET runs == RunsOf(once.blank, 1)
        IN  once.repeated = [k \in 1..Len(runs) |-> Annotated(runs[k])]

C13_Witness ==
    /\ once.ran
    /\ once.blank = <<Ok, Ok, Ok, Done>>
    /\ once.repeated = <<Ok \o <<SP, "(", "x", "3", ")">>, Done>>

\* A line that fuzzy collapsing may merge.
NumericLine(line) == is_numeric_heavy(line) /\ Len(strip(line)) > 10

SimilarLine(a, b) ==
    NumericLine(a) /\ NumericLine(b) /\ normalize_numbers(a) = normalize_numbers(b)

\* The maximal runs of numeric lines with one normalized form, in order; any
\* other line is a run of its own.
RECURSIVE SimilarRuns(_, _)
SimilarRuns(lines, i) ==
    IF i > Len(lines) THEN <<>>
    ELSE LET j == CHOOSE j \in i..Len(lines) :
                     /\ \A k \in i..j : SimilarLine(lines[k], lines[i]) \/ k = i
                     /\ j = Len(lines) \/ ~SimilarLine(lines[j + 1], lines[i])
         IN  <<SubSeq(lines, i, j)>> \o SimilarRuns(lines, j + 1)

Elided(run) ==
    IF Len(run) >= 5
    THEN <<run[1],
           <<SP, SP, ".", ".", ".", SP, "(">> \o Digits(Len(run) - 2)
             \o <<SP, "s", "i", "m", "i", "l", "a", "r", SP, "l", "i", "n", "e", "s", ")">>,
           run[Len(run)]>>
    ELSE run

RECURSIVE Concat(_)
Concat(seqs) == IF seqs = <<>> THEN <<>> ELSE seqs[1] \o Concat(Tail(seqs))

\* C12: a maximal run of n consecutive lines of one number-normalized form,
\* all numeric-heavy and longer than 10 characters when trimmed, becomes its
\* first line, a marker stating n - 2 omitted lines and its last line when
\* n >= 5, and stays as it is when n < 5; lines outside such runs are not
\* merged.
C12_FuzzyCollapse ==
    once.ran =>
        LET runs == SimilarRuns(once.repeated, 1)
        IN  once.similar = Concat([k \in 1..Len(runs) |-> Elided(runs[k])])

\* C14: when the line list after stages 1-6 has more lines than the
\* threshold, the result is its first keep_head lines, one marker line stating
\* removed = total - keep_head - keep_tail and the total, and its last
\* keep_tail lines, no line kept twice; otherwise the list is left untouched.
C14_MiddleTruncation ==
    once.ran =>
        LET total == Len(once.trimmed)
            head == config.generic_keep_head
            tail == config.generic_keep_tail
        IN  IF total > config.generic_truncate_threshold
            THEN /\ head + tail <= total
                 /\ Len(once.lines) = head + 1 + tail
                 /\ SubSeq(once.lines, 1, head) = SubSeq(once.trimmed, 1, head)
                 /\ once.lines[head + 1]
                       = <<LF, ".", ".", ".", SP, "(">> \o Digits(total - head - tail)
                         \o <<SP, "l", "i", "n", "e", "s", SP, "t", "r", "u", "n", "c",
                              "a", "t", "e", "d", ",", SP>>
                         \o Digits(total)
                         \o <<SP, "t", "o", "t", "a", "l", ")", SP, ".", ".", ".", LF>>
                 /\ SubSeq(once.lines, head + 2, head + 1 + tail)
                       = SubSeq(once.trimmed, total - tail + 1, total)
            ELSE once.lines = once.trimmed

----------------------------------------------------------------------------
(* The search processor, SearchProcessor.process *)

MaxSearchBlocks == 3    \* blocks of matches in a search output

MinSearchLines == 20
PlainLimit == 30
PlainKeep == 25
MaxPerFile == 3
MaxFiles == 20

Contains(s, c) == \E k \in 1..Len(s) : s[k] = c

\* re.match(r"^Binary file .* matches", s)
IsBinaryWarning(s) ==
    /\ LitAt(s, 1, <<"B", "i", "n", "a", "r", "y", SP, "f", "i", "l", "e", SP>>)
    /\ \E k \in 13..Len(s) : LitAt(s, k, <<SP, "m", "a", "t", "c", "h", "e", "s">>)

\* re.match(r"^(.+?):(\d+:)?(.*)$", s): the end of group 1 is the first colon
\* that has a character before it (0: no match).
FirstColon(s) ==
    IF \E k \in 2..Len(s) : s[k] = ":"
    THEN CHOOSE k \in 2..Len(s) : s[k] = ":" /\ \A j \in 2..(k - 1) : s[j] # ":"
    ELSE 0

\* One pass of the loop over the lines. Without a match m is None, the left
\* operand of "or" is false and m.group(1) raises AttributeError.
SearchLine(line) ==
    LET stripped == strip(line)
        p == FirstColon(stripped)
        group1 == SubSeq(stripped, 1, p - 1)
    IN  IF stripped = <<>> \/ IsBinaryWarning(stripped)
        THEN [kind |-> "skip", path |-> <<>>, content |-> stripped]
        ELSE IF p = 0
        THEN [kind |-> "raise", path |-> <<>>, content |-> stripped]
        ELSE IF Contains(group1, "/") \/ Contains(group1, ".")
        THEN [kind |-> "file", path |-> group1, content |-> stripped]
        ELSE [kind |-> "plain", path |-> <<>>, content |-> stripped]

\* The keys of by_file, in insertion order.
RECURSIVE FilePaths(_, _, _)
FilePaths(scanned, k, paths) ==
    IF k > Len(scanned) THEN paths
    ELSE IF scanned[k].kind = "file" /\ \A i \in 1..Len(paths) : paths[i] # scanned[k].path
    THEN FilePaths(scanned, k + 1, Append(paths, scanned[k].path))
    ELSE FilePaths(scanned, k + 1, paths)

\* by_file[path]
FileMatches(scanned, path) ==
    LET rows == SelectSeq(scanned, LAMBDA r : r.kind = "file" /\ r.path = path)
    IN  [k \in 1..Len(rows) |-> rows[k].content]

InsertionOrder(scanned, paths) == paths

\* sorted(by_file.items(), key=lambda x: -len(x[1])): a stable sort.
RECURSIVE SortByMatches(_, _)
SortByMatches(scanned, paths) ==
    IF paths = <<>> THEN <<>>
    ELSE LET rest == SortByMatches(scanned, SubSeq(paths, 1, Len(paths) - 1))
             last == paths[Len(paths)]
             n == Len(FileMatches(scanned, last))
             i == Cardinality({k \in 1..Len(rest) :
                                  Len(FileMatches(scanned, rest[k])) >= n})
         IN  SubSeq(rest, 1, i) \o <<last>> \o SubSeq(rest, i + 1, Len(rest))

\* The lines emitted for one file of sorted_files.
FileGroup(path, matches) ==
    IF Len(matches) > MaxPerFile
    THEN <<path \o <<":", SP, "(">> \o Digits(Len(matches))
                \o <<SP, "m", "a", "t", "c", "h", "e", "s", ")">>>>
         \o [k \in 1..MaxPerFile |->
                IF LitAt(matches[k], 1, path \o <<":">>)
                THEN <<SP, SP>> \o SubSeq(matches[k], Len(path) + 2, Len(matches[k]))
                ELSE <<SP, SP>> \o matches[k]]
         \o <<<<SP, SP, ".", ".", ".", SP, "(">> \o Digits(Len(matches) - MaxPerFile)
                \o <<SP, "m", "o", "r", "e", ")">>>>
    ELSE matches

RECURSIVE FileGroups(_, _, _)
FileGroups(scanned, sorted_files, k) ==
    IF k > Len(sorted_files) \/ k > MaxFiles THEN <<>>
    ELSE FileGroup(sorted_files[k], FileMatches(scanned, sorted_files[k]))
         \o FileGroups(scanned, sorted_files, k + 1)

\* SearchProcessor.process(command, output)
process_search(output) ==
    LET lines == splitlines(output)
        scanned == [k \in 1..Len(lines) |-> SearchLine(lines[k])]
        paths == FilePaths(scanned, 1, <<>>)
        plain_matches == SelectSeq(scanned, LAMBDA r : r.kind = "plain")
        total_matches ==
            Cardinality({k \in 1..Len(scanned) : scanned[k].kind \in {"file", "plain"}})
        total_files == Len(paths)
        returned(x) == [ran |-> TRUE, raised |-> FALSE, out |-> x]
    IN  IF strip(output) = <<>> \/ Len(lines) < MinSearchLines THEN returned(output)
        ELSE IF \E k \in 1..Len(scanned) : scanned[k].kind = "raise"
        THEN [ran |-> TRUE, raised |-> TRUE, out |-> <<>>]
        ELSE IF total_matches = 0 THEN returned(output)
        ELSE IF total_files = 0
        THEN IF Len(plain_matches) > PlainLimit
             THEN returned(join([k \in 1..PlainKeep |-> plain_matches[k].content]
                                \o <<<<".", ".", ".", SP, "(">>
                                     \o Digits(Len(plain_matches) - PlainKeep)
                                     \o <<SP, "m", "o", "r", "e", SP, "m", "a", "t",
                                          "c", "h", "e", "s", ")">>>>))
             ELSE returned(output)
        ELSE returned(join(
                <<Digits(total_matches)
                  \o <<SP, "m", "a", "t", "c", "h", "e", "s", SP, "a", "c", "r", "o",
                       "s", "s", SP>>
                  \o Digits(total_files) \o <<SP, "f", "i", "l", "e", "s", ":">>>>
                \o FileGroups(scanned, SortByMatches(scanned, paths), 1)
                \o (IF total_files > MaxFiles
                    THEN <<<<".", ".", ".", SP, "(">> \o Digits(total_files - MaxFiles)
                           \o <<SP, "m", "o", "r", "e", SP, "f", "i", "l", "e", "s", ")">>>>
                    ELSE <<>>)))

\* The path of the i-th file of a search output: with a slash, or with a dot only.
SearchPath(i) == IF i = 3 THEN <<"f", ".">> \o Digits(i) ELSE <<"f", "/">> \o Digits(i)

MatchLine(i) == SearchPath(i) \o <<":", "1", ":", "x">>

\* Lines at the head of an output: none, a blank line, a binary-file warning,
\* a key:value line, a bare file name, or one match in each of 21 more files.
SearchHeads ==
    {<<>>, <<<<>>>>, <<<<"k", ":", "v">>>>, <<SearchPath(1)>>,
     <<<<"B", "i", "n", "a", "r", "y", SP, "f", "i", "l", "e", SP, "a", SP,
         "m", "a", "t", "c", "h", "e", "s">>>>,
     [k \in 1..(MaxFiles + 1) |-> MatchLine(10 + k)]}

RECURSIVE Expand(_)
Expand(blocks) ==
    IF blocks = <<>> THEN <<>>
    ELSE [k \in 1..blocks[1].n |-> MatchLine(blocks[1].file)] \o Expand(Tail(blocks))

\* Outputs of grep -rn: blocks of 5 or 10 matches in one of three files.
SearchBlocks ==
    {[file |-> 1, n |-> 5], [file |-> 1, n |-> 10], [file |-> 2, n |-> 10],
     [file |-> 3, n |-> 5]}

SearchOutputs ==
    {join(head \o Expand(blocks)) :
        head \in SearchHeads,
        blocks \in UNION {[1..n -> SearchBlocks] : n \in 0..MaxSearchBlocks}}

SearchProcess ==
    /\ ~once.ran
    /\ once' = process_search(text)
    /\ UNCHANGED <<classes, registry, config, call, db, txn, trackers, now, audit,
                   text, twice, pc, lock, done>>

SearchInit ==
    /\ RegistryIdle /\ PipelineIdle /\ ThreadsIdle /\ LedgerIdle
    /\ trackers = [t \in Trackers |-> NoTracker]
    /\ text \in SearchOutputs
    /\ once = NoClean
    /\ twice = <<>>

SearchNext == SearchProcess

SpecSearch == SearchInit /\ [][SearchNext]_vars

(* Claims about the search processor *)

SearchScan ==
    LET lines == splitlines(text) IN [k \in 1..Len(lines) |-> SearchLine(lines[k])]

\* C11: process of a specialized processor returns a text without raising,
\* whatever the lines of the output are (here: the search processor, on lines
\* with and without a ':' separator).
C11_Totality == once.ran => ~once.raised

\* The output is grouped by file: process returned, on at least 20 lines, some
\* of which carry a file path.
Grouped ==
    /\ once.ran /\ ~once.raised
    /\ Len(SearchScan) >= MinSearchLines
    /\ \E k \in 1..Len(SearchScan) : SearchScan[k].kind = "file"

GroupHeader(p, n) ==
    p \o <<":", SP, "(">> \o Digits(n) \o <<SP, "m", "a", "t", "c", "h", "e", "s", ")">>

\* What the claim speaks of, for the input and the output of one call:
\* files, the file paths of the input; count[p], the matches of file p;
\* at[p], the positions of the output at which the group of p shows (its header
\* when it has more than 3 matches, its match lines otherwise); lines[p], the
\* positions of the output lines that p contributes.
SearchGroups ==
    LET scan == SearchScan
        out == splitlines(once.out)
        files == {scan[k].path : k \in {j \in 1..Len(scan) : scan[j].kind = "file"}}
        count == [p \in files |->
                    Cardinality({k \in 1..Len(scan) :
                                    scan[k].kind = "file" /\ scan[k].path = p})]
        at == [p \in files |->
                 {k \in 2..Len(out) :
                     IF count[p] > MaxPerFile
                     THEN out[k] = GroupHeader(p, count[p])
                     ELSE LitAt(out[k], 1, p \o <<":">>)}]
    IN  [scan |-> scan, out |-> out, files |-> files, count |-> count, at |-> at,
         lines |-> [p \in files |->
                      IF count[p] > MaxPerFile
                      THEN {k \in 2..Len(out) :
                               \E h \in at[p] : k \in h..(h + MaxPerFile + 1)}
                      ELSE at[p]]]

DescendingGroups(g) ==
    \A p \in g.files, q \in g.files :
        \A i \in g.at[p], j \in g.at[q] : i < j => g.count[p] >= g.count[q]

FilesElision(n) ==
    <<".", ".", ".", SP, "(">> \o Digits(n)
        \o <<SP, "m", "o", "r", "e", SP, "f", "i", "l", "e", "s", ")">>

\* At most 20 groups, the files with the most matches, then the count of the rest.
FileCap(g) ==
    LET emitted == {p \in g.files : g.at[p] # {}}
        n == Cardinality(g.files)
    IN  /\ Cardinality(emitted) = IF n > MaxFiles THEN MaxFiles ELSE n
        /\ \A p \in emitted, q \in g.files \ emitted : g.count[p] >= g.count[q]
        /\ n > MaxFiles => g.out[Len(g.out)] = FilesElision(n - MaxFiles)

ShortUnchanged ==
    once.ran /\ ~once.raised /\ Len(splitlines(text)) < MinSearchLines => once.out = text

\* C15 as stated: groups in descending order of match count, at most 4 output
\* lines for a file with more than 3 matches, at most 20 groups followed by the
\* count of the remaining files, and an output below 20 lines unchanged.
C15_SearchGrouping ==
    /\ ShortUnchanged
    /\ Grouped =>
        LET g == SearchGroups
        IN  /\ DescendingGroups(g)
            /\ \A p \in g.files :
                  g.count[p] > MaxPerFile => Cardinality(g.lines[p]) <= MaxPerFile + 1
            /\ FileCap(g)

\* The group of a file with more than 3 matches: its header with the count, the
\* first 3 matches without the path, indented, and the count of the others.
GroupShape(g, p) ==
    \A h \in g.at[p] :
        /\ g.at[p] = {h}
        /\ h + MaxPerFile + 1 <= Len(g.out)
        /\ LET m == FileMatches(g.scan, p)
           IN  \A k \in 1..MaxPerFile :
                  g.out[h + k] = <<SP, SP>> \o SubSeq(m[k], Len(p) + 2, Len(m[k]))
        /\ g.out[h + MaxPerFile + 1] =
              <<SP, SP, ".", ".", ".", SP, "(">> \o Digits(g.count[p] - MaxPerFile)
                  \o <<SP, "m", "o", "r", "e", ")">>

\* C15, amended: groups in descending order of match count; a file with more
\* than 3 matches contributes 5 lines (header, 3 samples, count of the others),
\* a file with at most 3 its match lines; every line after the first belongs
\* to a group or is the final count of the remaining files; at most 20 groups;
\* an output below 20 lines is unchanged.
C15_GroupsWithHeader ==
    /\ ShortUnchanged
    /\ Grouped =>
        LET g == SearchGroups
        IN  /\ DescendingGroups(g)
            /\ \A p \in g.files :
                  g.at[p] # {} =>
                     IF g.count[p] > MaxPerFile
                     THEN GroupShape(g, p) /\ Cardinality(g.lines[p]) = MaxPerFile + 2
                     ELSE Cardinality(g.lines[p]) = g.count[p]
            /\ \A k \in 2..Len(g.out) :
                  \/ \E p \in g.files : k \in g.lines[p]
                  \/ k = Len(g.out) /\ Cardinality(g.files) > MaxFiles
            /\ FileCap(g)

\* 5, 10 and 10 matches in three files: the files with 10 matches come first,
\* in 16 lines.
C15_Witness ==
    /\ Grouped
    /\ text = join(Expand(<<[file |-> 3, n |-> 5], [file |-> 1, n |-> 10],
                            [file |-> 2, n |-> 10]>>))
    /\ LET out == splitlines(once.out)
       IN  /\ Len(out) = 16
           /\ out[2] = GroupHeader(SearchPath(1), 10)
           /\ out[12] = GroupHeader(SearchPath(3), 5)

(* The terraform processor, TerraformProcessor.process *)

MaxTerraformChunks == 3    \* parts of a terraform output

TerraformMinLines == 30

\* lit in s
HasSub(s, lit) == \E i \in 1..Len(s) : LitAt(s, i, lit)

\* re.match of a literal followed by \s+
LitSpace(s, i, lit) == LitAt(s, i, lit) /\ SpacesEnd(s, i + Len(lit)) > i + Len(lit)

IsWordChar(c) == IsLetter(c) \/ IsDigit(c) \/ c = "_"

RECURSIVE WordEnd(_, _)
WordEnd(s, i) == IF i <= Len(s) /\ IsWordChar(s[i]) THEN WordEnd(s, i + 1) ELSE i

\* ^(Initializing|Acquiring|Installing|Reusing)\s+ , ^-\s+Installed\s+ and
\* ^(Initializing the backend|Successfully configured)
IsInitLine(s) ==
    \/ \E w \in {<<"I", "n", "i", "t", "i", "a", "l", "i", "z", "i", "n", "g">>, <<"A", "c", "q", "u", "i", "r", "i", "n", "g">>, <<"I", "n", "s", "t", "a", "l", "l", "i", "n", "g">>, <<"R", "e", "u", "s", "i", "n", "g">>} :
          LitSpace(s, 1, w)
    \/ LitSpace(s, 1, <<"-">>) /\ LitSpace(s, SpacesEnd(s, 2), <<"I", "n", "s", "t", "a", "l", "l", "e", "d">>)
    \/ LitAt(s, 1, <<"I", "n", "i", "t", "i", "a", "l", "i", "z", "i", "n", "g", SP, "t", "h", "e", SP, "b", "a", "c", "k", "e", "n", "d">>)
    \/ LitAt(s, 1, <<"S", "u", "c", "c", "e", "s", "s", "f", "u", "l", "l", "y", SP, "c", "o", "n", "f", "i", "g", "u", "r", "e", "d">>)

\* ^#\s+\S+
IsBlockHeader(s) == LitSpace(s, 1, <<"#">>) /\ SpacesEnd(s, 2) <= Len(s)

HeaderAction(s) ==
    IF HasSub(s, <<"w", "i", "l", "l", SP, "b", "e", SP, "c", "r", "e", "a", "t", "e", "d">>) THEN "+"
    ELSE IF HasSub(s, <<"w", "i", "l", "l", SP, "b", "e", SP, "d", "e", "s", "t", "r", "o", "y", "e", "d">>) THEN "-"
    ELSE IF HasSub(s, <<"w", "i", "l", "l", SP, "b", "e", SP, "u", "p", "d", "a", "t", "e", "d">>) \/ HasSub(s, <<"m", "u", "s", "t", SP, "b", "e", SP, "r", "e", "p", "l", "a", "c", "e", "d">>) THEN "~"
    ELSE ""

\* ^\s*[~+-]
IsDiffPrefixed(s) == s # <<>> /\ s[1] \in {"~", "+", "-"}

\* ^\s*[+~-]\s+resource\s+
IsBlockBoundary(s) ==
    IsDiffPrefixed(s) /\ SpacesEnd(s, 2) > 2 /\ LitSpace(s, SpacesEnd(s, 2), <<"r", "e", "s", "o", "u", "r", "c", "e">>)

IsChanged(s) == HasSub(s, <<"-", ">">>) \/ IsDiffPrefixed(s)

IsKnownAfterApply(s) == HasSub(s, <<"(", "k", "n", "o", "w", "n", SP, "a", "f", "t", "e", "r", SP, "a", "p", "p", "l", "y", ")">>)

ForcesReplacement(s) == HasSub(s, <<"f", "o", "r", "c", "e", "s", SP, "r", "e", "p", "l", "a", "c", "e", "m", "e", "n", "t">>)

\* ^Plan: and ^(Apply complete|Destroy complete|No changes)
IsSummary(s) ==
    \E w \in {<<"P", "l", "a", "n", ":">>, <<"A", "p", "p", "l", "y", SP, "c", "o", "m", "p", "l", "e", "t", "e">>, <<"D", "e", "s", "t", "r", "o", "y", SP, "c", "o", "m", "p", "l", "e", "t", "e">>, <<"N", "o", SP, "c", "h", "a", "n", "g", "e", "s">>} :
        LitAt(s, 1, w)

\* ^\s*[+~-]\s+\w+\s*=
IsOutputValue(s) ==
    /\ IsDiffPrefixed(s)
    /\ SpacesEnd(s, 2) > 2
    /\ WordEnd(s, SpacesEnd(s, 2)) > SpacesEnd(s, 2)
    /\ LitAt(s, SpacesEnd(s, WordEnd(s, SpacesEnd(s, 2))), <<"=">>)

\* re.search(r"\b(Error|Warning|error|warning)\b", s)
IsDiagnostic(s) ==
    \E w \in {<<"E", "r", "r", "o", "r">>, <<"W", "a", "r", "n", "i", "n", "g">>, <<"e", "r", "r", "o", "r">>, <<"w", "a", "r", "n", "i", "n", "g">>} :
        \E i \in 1..Len(s) :
            /\ LitAt(s, i, w)
            /\ i = 1 \/ ~IsWordChar(s[i - 1])
            /\ i + Len(w) > Len(s) \/ ~IsWordChar(s[i + Len(w)])

\* One pass of the loop over the lines, on line k: whether the line is
\* appended to result, and in_resource_block and resource_action after it.
TerraformLine(lines, k, in_block, action, kept) ==
    LET stripped == strip(lines[k])
        same(keep) == [keep |-> keep, in_block |-> in_block, action |-> action]
    IN  IF IsInitLine(stripped) THEN same(FALSE)
        ELSE IF IsBlockHeader(stripped)
        THEN [keep |-> TRUE, in_block |-> TRUE, action |-> HeaderAction(stripped)]
        ELSE IF in_block /\ IsBlockBoundary(stripped) THEN same(TRUE)
        ELSE IF in_block /\ stripped = <<"}">>
        THEN [keep |-> TRUE, in_block |-> FALSE, action |-> action]
        ELSE IF in_block
        THEN same(\/ IsChanged(stripped)
                  \/ IsKnownAfterApply(stripped)
                  \/ ForcesReplacement(stripped)
                  \/ action = "+")
        ELSE IF \/ IsSummary(stripped)
                \/ LitAt(stripped, 1, <<"C", "h", "a", "n", "g", "e", "s", SP, "t", "o", SP, "O", "u", "t", "p", "u", "t", "s", ":">>)
                \/ IsOutputValue(stripped)
                \/ IsDiagnostic(stripped)
                \/ LitAt(stripped, 1, <<"N", "o", "t", "e", ":">>)
        THEN same(TRUE)
        ELSE same(/\ stripped = <<>>
                  /\ kept # <<>>
                  /\ strip(lines[kept[Len(kept)]]) # <<>>)

\* The loop over the lines: the indices of the lines appended to result.
RECURSIVE TerraformScan(_, _, _, _, _)
TerraformScan(lines, k, in_block, action, kept) ==
    IF k > Len(lines) THEN kept
    ELSE LET r == TerraformLine(lines, k, in_block, action, kept)
         IN  IF r.keep
             THEN TerraformScan(lines, k + 1, r.in_block, r.action, Append(kept, k))
             ELSE TerraformScan(lines, k + 1, r.in_block, r.action, kept)

\* TerraformProcessor.process(command, output); kept: the indices of the lines
\* of the output that are returned.
process_terraform(output) ==
    LET lines == splitlines(output)
        kept == TerraformScan(lines, 1, FALSE, "", <<>>)
        unchanged == [ran |-> TRUE, out |-> output, kept |-> [k \in 1..Len(lines) |-> k]]
    IN  IF strip(output) = <<>> \/ Len(lines) <= TerraformMinLines THEN unchanged
        ELSE IF kept = <<>> THEN unchanged
        ELSE [ran |-> TRUE, out |-> join([k \in 1..Len(kept) |-> lines[kept[k]]]),
              kept |-> kept]

\* Parts of a plan or apply output: a block for each action, a block that is
\* not closed, the summary with an output change, diagnostics, and
\* initialization lines.
TerraformChunks ==
    {<<<<SP, SP, "#", SP, "a", ".", "b", SP, "w", "i", "l", "l", SP, "b", "e", SP, "c", "r", "e", "a", "t", "e", "d">>, <<SP, SP, "+", SP, "r", "e", "s", "o", "u", "r", "c", "e", SP, "\\", "\"", "a", "\\", "\"", SP, "\\", "\"", "b", "\\", "\"", SP, "{">>,
       <<SP, SP, SP, SP, SP, SP, "+", SP, "i", "d", SP, "=", SP, "(", "k", "n", "o", "w", "n", SP, "a", "f", "t", "e", "r", SP, "a", "p", "p", "l", "y", ")">>, <<SP, SP, SP, SP, SP, SP, SP, SP, "n", "a", "m", "e", SP, "=", SP, "\\", "\"", "x", "\\", "\"">>, <<SP, SP, SP, SP, "}">>>>,
     <<<<SP, SP, "#", SP, "a", ".", "c", SP, "w", "i", "l", "l", SP, "b", "e", SP, "d", "e", "s", "t", "r", "o", "y", "e", "d">>, <<SP, SP, "-", SP, "r", "e", "s", "o", "u", "r", "c", "e", SP, "\\", "\"", "a", "\\", "\"", SP, "\\", "\"", "c", "\\", "\"", SP, "{">>,
       <<SP, SP, SP, SP, SP, SP, "-", SP, "i", "d", SP, "=", SP, "\\", "\"", "1", "\\", "\"", SP, "-", ">", SP, "n", "u", "l", "l">>, <<SP, SP, SP, SP, SP, SP, SP, SP, "n", "a", "m", "e", SP, "=", SP, "\\", "\"", "x", "\\", "\"">>, <<SP, SP, SP, SP, "}">>>>,
     <<<<SP, SP, "#", SP, "a", ".", "d", SP, "w", "i", "l", "l", SP, "b", "e", SP, "u", "p", "d", "a", "t", "e", "d", SP, "i", "n", "-", "p", "l", "a", "c", "e">>, <<SP, SP, "~", SP, "r", "e", "s", "o", "u", "r", "c", "e", SP, "\\", "\"", "a", "\\", "\"", SP, "\\", "\"", "d", "\\", "\"", SP, "{">>,
       <<SP, SP, SP, SP, SP, SP, "~", SP, "s", "i", "z", "e", SP, "=", SP, "1", SP, "-", ">", SP, "2">>, <<SP, SP, SP, SP, SP, SP, SP, SP, "i", "d", SP, "=", SP, "\\", "\"", "1", "\\", "\"">>,
       <<SP, SP, SP, SP, SP, SP, SP, SP, "a", "r", "n", SP, "=", SP, "(", "k", "n", "o", "w", "n", SP, "a", "f", "t", "e", "r", SP, "a", "p", "p", "l", "y", ")">>, <<SP, SP, SP, SP, SP, SP, SP, SP, "a", "m", "i", SP, "=", SP, "\\", "\"", "x", "\\", "\"", SP, "#", SP, "f", "o", "r", "c", "e", "s", SP, "r", "e", "p", "l", "a", "c", "e", "m", "e", "n", "t">>,
       <<SP, SP, SP, SP, "}">>>>,
     <<<<SP, SP, "#", SP, "a", ".", "e", SP, "m", "u", "s", "t", SP, "b", "e", SP, "r", "e", "p", "l", "a", "c", "e", "d">>, <<SP, SP, SP, SP, SP, SP, SP, SP, "i", "d", SP, "=", SP, "\\", "\"", "1", "\\", "\"">>>>,
     <<<<"P", "l", "a", "n", ":", SP, "1", SP, "t", "o", SP, "a", "d", "d", ",", SP, "1", SP, "t", "o", SP, "c", "h", "a", "n", "g", "e", ",", SP, "1", SP, "t", "o", SP, "d", "e", "s", "t", "r", "o", "y", ".">>, <<"C", "h", "a", "n", "g", "e", "s", SP, "t", "o", SP, "O", "u", "t", "p", "u", "t", "s", ":">>,
       <<SP, SP, "+", SP, "o", "u", "t", SP, "=", SP, "1">>>>,
     <<<<"W", "a", "r", "n", "i", "n", "g", ":", SP, "D", "e", "p", "r", "e", "c", "a", "t", "e", "d", SP, "a", "t", "t", "r", "i", "b", "u", "t", "e">>, <<"E", "r", "r", "o", "r", ":", SP, "I", "n", "v", "a", "l", "i", "d", SP, "v", "a", "l", "u", "e">>>>,
     <<<<"I", "n", "i", "t", "i", "a", "l", "i", "z", "i", "n", "g", SP, "p", "r", "o", "v", "i", "d", "e", "r", SP, "p", "l", "u", "g", "i", "n", "s", ".", ".", ".">>, <<>>>>}

RECURSIVE Flatten(_)
Flatten(seqs) == IF seqs = <<>> THEN <<>> ELSE seqs[1] \o Flatten(Tail(seqs))

\* Outputs of terraform plan: none or 31 "Refreshing state" lines, then parts.
TerraformOutputs ==
    {join([k \in 1..n |-> <<"a", ".", "b", ":", SP, "R", "e", "f", "r", "e", "s", "h", "i", "n", "g", SP, "s", "t", "a", "t", "e", ".", ".", ".">>] \o Flatten(chunks)) :
        n \in {0, TerraformMinLines + 1},
        chunks \in UNION {[1..m -> TerraformChunks] : m \in 0..MaxTerraformChunks}}

TerraformProcess ==
    /\ ~once.ran
    /\ once' = process_terraform(text)
    /\ UNCHANGED <<classes, registry, config, call, db, txn, trackers, now, audit,
                   text, twice, pc, lock, done>>

TerraformInit ==
    /\ RegistryIdle /\ PipelineIdle /\ ThreadsIdle /\ LedgerIdle
    /\ trackers = [t \in Trackers |-> NoTracker]
    /\ text \in TerraformOutputs
    /\ once = NoClean
    /\ twice = <<>>

TerraformNext == TerraformProcess

SpecTerraform == TerraformInit /\ [][TerraformNext]_vars

(* Claims about the terraform processor *)

\* What the claims speak of, for the input of one call: the stripped lines; for
\* each line the header of the block it stands in (the last header before it
\* with no closing brace in between; 0 outside a block); the lines returned.
TerraformBlocks ==
    LET lines == splitlines(text)
        s == [k \in 1..Len(lines) |-> strip(lines[k])]
        headers == {k \in 1..Len(s) : IsBlockHeader(s[k])}
        open(k) == {h \in headers : h < k /\ \A j \in (h + 1)..(k - 1) : s[j] # <<"}">>}
    IN  [s |-> s,
         headers |-> headers,
         block |-> [k \in 1..Len(s) |->
                      IF open(k) = {} THEN 0
                      ELSE CHOOSE h \in open(k) : \A g \in open(k) : g <= h],
         kept |-> {once.kept[i] : i \in 1..Len(once.kept)}]

\* The attribute lines of the block of header h: its "key = value" lines.
AttributeLines(b, h) ==
    {k \in 1..Len(b.s) :
        /\ b.block[k] = h
        /\ k \notin b.headers
        /\ ~IsBlockBoundary(b.s[k])
        /\ HasSub(b.s[k], <<SP, "=", SP>>)}

PlanProcessed == once.ran /\ Len(splitlines(text)) > TerraformMinLines

\* C16: in an output of more than 30 lines, for every resource block, all
\* attribute lines are kept when the action is creation, no attribute line is
\* kept when it is destruction, and exactly the changed, "(known after apply)"
\* and "forces replacement" attribute lines are kept when it is update.
C16_BlockPolicy ==
    PlanProcessed =>
        LET b == TerraformBlocks
        IN  \A h \in b.headers :
               LET attrs == AttributeLines(b, h)
                   action == HeaderAction(b.s[h])
               IN  /\ action = "+" => attrs \subseteq b.kept
                   /\ action = "-" => attrs \cap b.kept = {}
                   /\ action = "~" =>
                         attrs \cap b.kept =
                            {k \in attrs : \/ IsChanged(b.s[k])
                                           \/ IsKnownAfterApply(b.s[k])
                                           \/ ForcesReplacement(b.s[k])}

\* C17: in an output of more than 30 lines, every summary line, output-value
\* diff line, warning line and error line is kept, inside a resource block or
\* outside.
C17_AlwaysKept ==
    PlanProcessed =>
        LET b == TerraformBlocks
        IN  \A k \in 1..Len(b.s) :
               (IsSummary(b.s[k]) \/ IsOutputValue(b.s[k]) \/ IsDiagnostic(b.s[k]))
                  => k \in b.kept

(* The package listing processor, PackageListProcessor.process *)

MaxPackages == 22    \* items of a package listing
MaxTreeLines == 3    \* lines of a dependency tree after its first lines

ListFloor == 20
ShownItems == 15
ShownIssues == 10
ShownTopLevel == 20

\* re.search(r"\b<tool>\s+<sub>\b", command)
CommandIs(command, tools, subs) ==
    \E i \in 1..Len(command) : \E tool \in tools, sub \in subs :
        LET j == SpacesEnd(command, i + Len(tool))
        IN  /\ LitSpace(command, i, tool)
            /\ i = 1 \/ ~IsWordChar(command[i - 1])
            /\ LitAt(command, j, sub)
            /\ j + Len(sub) > Len(command) \/ ~IsWordChar(command[j + Len(sub)])

Pip == {<<"p", "i", "p">>, <<"p", "i", "p", "3">>}

\* The non-blank lines, stripped.
StrippedLines(output) ==
    SelectSeq([k \in 1..Len(splitlines(output)) |-> strip(splitlines(output)[k])],
              LAMBDA s : s # <<>>)

RECURSIVE DashesEnd(_, _)
DashesEnd(s, i) == IF i <= Len(s) /\ s[i] = "-" THEN DashesEnd(s, i + 1) ELSE i

\* ^-+\s+-+ and ^Package\s+Version
IsPipHeader(s) ==
    \/ /\ DashesEnd(s, 1) > 1
       /\ SpacesEnd(s, DashesEnd(s, 1)) > DashesEnd(s, 1)
       /\ LitAt(s, SpacesEnd(s, DashesEnd(s, 1)), <<"-">>)
    \/ LitSpace(s, 1, <<"P", "a", "c", "k", "a", "g", "e">>) /\ LitAt(s, SpacesEnd(s, 8), <<"V", "e", "r", "s", "i", "o", "n">>)

LastItems(items) == SubSeq(items, Len(items) - ShownItems + 1, Len(items))

\* data_lines[:15]
FirstItems(items) == SubSeq(items, 1, ShownItems)

\* The count header, the first 15 items and the count of the others.
Summarized(output, items, title) ==
    IF Len(items) <= ListFloor THEN output
    ELSE join(<<Digits(Len(items)) \o <<SP>> \o title \o <<":">>>>
              \o [k \in 1..ShownItems |-> <<SP, SP>> \o FirstItems(items)[k]]
              \o <<<<SP, SP, ".", ".", ".", SP, "(">> \o Digits(Len(items) - ShownItems)
                   \o <<SP, "m", "o", "r", "e", ")">>>>)

process_pip_list(output) ==
    Summarized(output, SelectSeq(StrippedLines(output), LAMBDA s : ~IsPipHeader(s)),
               <<"p", "a", "c", "k", "a", "g", "e", "s", SP, "i", "n", "s", "t", "a", "l", "l", "e", "d">>)

process_pip_freeze(output) == Summarized(output, StrippedLines(output), <<"p", "a", "c", "k", "a", "g", "e", "s">>)

process_conda_list(output) ==
    LET data_lines == SelectSeq(splitlines(output),
                                LAMBDA l : strip(l) # <<>> /\ ~LitAt(l, 1, <<"#">>))
    IN  Summarized(output, [k \in 1..Len(data_lines) |-> strip(data_lines[k])],
                   <<"p", "a", "c", "k", "a", "g", "e", "s", SP, "i", "n", "s", "t", "a", "l", "l", "e", "d">>)

process_simple_list(output, item_type) ==
    Summarized(output, StrippedLines(output), item_type)

Lower(c) ==
    IF \E k \in 1..26 : <<"A", "B", "C", "D", "E", "F", "G", "H", "I", "J", "K", "L", "M", "N", "O", "P", "Q", "R", "S", "T", "U", "V", "W", "X", "Y", "Z">>[k] = c
    THEN <<"a", "b", "c", "d", "e", "f", "g", "h", "i", "j", "k", "l", "m", "n", "o", "p", "q", "r", "s", "t", "u", "v", "w", "x", "y", "z">>[CHOOSE k \in 1..26 : <<"A", "B", "C", "D", "E", "F", "G", "H", "I", "J", "K", "L", "M", "N", "O", "P", "Q", "R", "S", "T", "U", "V", "W", "X", "Y", "Z">>[k] = c]
    ELSE c

\* re.search(r"(UNMET|invalid|missing|ERR!|WARN)", s, re.I)
IsIssue(s) ==
    \E w \in {<<"u", "n", "m", "e", "t">>, <<"i", "n", "v", "a", "l", "i", "d">>, <<"m", "i", "s", "s", "i", "n", "g">>, <<"e", "r", "r", "!">>, <<"w", "a", "r", "n">>} :
        \E i \in 1..Len(s) :
            /\ i + Len(w) - 1 <= Len(s)
            /\ \A k \in 1..Len(w) : Lower(s[i + k - 1]) = w[k]

\* The first position from i on that holds none of the characters of skip.
RECURSIVE SkipChars(_, _, _)
SkipChars(s, i, skip) ==
    IF i <= Len(s) /\ s[i] \in skip THEN SkipChars(s, i + 1, skip) ELSE i

\* The box-drawing characters of a tree: tee, corner, dash and vertical bar; the grave accent.
Tee == "U+251C"
Corner == "U+2514"
Dash == "U+2500"
Pipe == "U+2502"
Grave == "U+0060"

\* ^[tee corner] dash dash \s+  or  ^[+ grave]-\s+
IsTopLevel(line) ==
    \/ /\ line # <<>> /\ line[1] \in {Tee, Corner}
       /\ LitSpace(line, 2, <<Dash, Dash>>)
    \/ /\ line # <<>> /\ line[1] \in {"+", Grave}
       /\ LitSpace(line, 2, <<"-">>)

\* ^[pipe space]*[tee corner]  or  ^[| ]*[+ grave]
IsDeeper(line) ==
    \/ LET i == SkipChars(line, 1, {Pipe, SP})
       IN  i <= Len(line) /\ line[i] \in {Tee, Corner}
    \/ LET i == SkipChars(line, 1, {"|", SP})
       IN  i <= Len(line) /\ line[i] \in {"+", Grave}

\* The branch of the loop of _process_npm_ls that a line takes.
TreeLine(line) ==
    IF IsIssue(strip(line)) THEN "issue"
    ELSE IF IsTopLevel(line) THEN "top"
    ELSE IF IsDeeper(line) THEN "deeper"
    ELSE IF line # <<>> /\ line[1] # SP THEN "root"
    ELSE "other"

\* The loop of _process_npm_ls: top_level, issues and total_deps after it.
RECURSIVE TreeScan(_, _, _, _, _)
TreeScan(lines, k, top_level, issues, total_deps) ==
    LET kind == IF k <= Len(lines) THEN TreeLine(lines[k]) ELSE "end"
        stripped == strip(lines[k])
    IN  IF kind = "end"
        THEN [top_level |-> top_level, issues |-> issues, total_deps |-> total_deps]
        ELSE IF kind = "issue"
        THEN TreeScan(lines, k + 1, top_level, Append(issues, stripped), total_deps)
        ELSE IF kind = "top"
        THEN TreeScan(lines, k + 1, Append(top_level, stripped), issues, total_deps + 1)
        ELSE IF kind = "deeper"
        THEN TreeScan(lines, k + 1, top_level, issues, total_deps + 1)
        ELSE IF kind = "root"
        THEN TreeScan(lines, k + 1, <<stripped>> \o top_level, issues, total_deps)
        ELSE TreeScan(lines, k + 1, top_level, issues, total_deps)

\* A titled section: at most shown entries, then the count of the others.
Section(title, entries, shown) ==
    <<title \o <<SP, "(">> \o Digits(Len(entries)) \o <<")", ":">>>>
    \o [k \in 1..(IF Len(entries) > shown THEN shown ELSE Len(entries)) |->
           <<SP, SP>> \o entries[k]]
    \o (IF Len(entries) > shown
        THEN <<<<SP, SP, ".", ".", ".", SP, "(">> \o Digits(Len(entries) - shown)
               \o <<SP, "m", "o", "r", "e", ")">>>>
        ELSE <<>>)

process_npm_ls(output) ==
    LET lines == splitlines(output)
        r == TreeScan(lines, 1, <<>>, <<>>, 0)
    IN  IF Len(lines) <= ListFloor THEN output
        ELSE join(<<Digits(r.total_deps)
                    \o <<SP, "t", "o", "t", "a", "l", SP, "d", "e", "p", "e", "n", "d", "e", "n", "c", "i", "e", "s", ":">>>>
                  \o (IF r.issues # <<>>
                      THEN Section(<<"I", "s", "s", "u", "e", "s">>, r.issues, ShownIssues)
                      ELSE <<>>)
                  \o Section(<<"T", "o", "p", "-", "l", "e", "v", "e", "l">>, r.top_level, ShownTopLevel))

\* PackageListProcessor.process(command, output)
process_package_list(command, output) ==
    [ran |-> TRUE,
     out |-> IF strip(output) = <<>> THEN output
             ELSE IF CommandIs(command, {<<"n", "p", "m">>}, {<<"l", "s">>, <<"l", "i", "s", "t">>})
             THEN process_npm_ls(output)
             ELSE IF CommandIs(command, Pip, {<<"f", "r", "e", "e", "z", "e">>}) THEN process_pip_freeze(output)
             ELSE IF CommandIs(command, Pip, {<<"l", "i", "s", "t">>}) THEN process_pip_list(output)
             ELSE IF CommandIs(command, {<<"c", "o", "n", "d", "a">>}, {<<"l", "i", "s", "t">>})
             THEN process_conda_list(output)
             ELSE IF CommandIs(command, {<<"y", "a", "r", "n">>, <<"p", "n", "p", "m">>}, {<<"l", "i", "s", "t">>})
             THEN process_npm_ls(output)
             ELSE IF CommandIs(command, {<<"g", "e", "m">>}, {<<"l", "i", "s", "t">>})
             THEN process_simple_list(output, <<"g", "e", "m", "s">>)
             ELSE IF CommandIs(command, {<<"b", "r", "e", "w">>}, {<<"l", "i", "s", "t">>})
             THEN process_simple_list(output, <<"f", "o", "r", "m", "u", "l", "a", "e">>)
             ELSE output]

FlatCommands ==
    {<<"p", "i", "p", SP, "l", "i", "s", "t">>, <<"p", "i", "p", "3", SP, "f", "r", "e", "e", "z", "e">>, <<"c", "o", "n", "d", "a", SP, "l", "i", "s", "t">>, <<"g", "e", "m", SP, "l", "i", "s", "t">>, <<"b", "r", "e", "w", SP, "l", "i", "s", "t">>}

TreeCommands == {<<"n", "p", "m", SP, "l", "s">>, <<"y", "a", "r", "n", SP, "l", "i", "s", "t">>, <<"p", "n", "p", "m", SP, "l", "i", "s", "t">>}

\* Flat listings: a header or none, then 19 to MaxPackages items, in the form
\* of pip list or, indented, of pip freeze.
FlatOutputs ==
    {join(head \o [k \in 1..n |-> IF freeze
                                  THEN <<SP, SP, "p", "k", "g">> \o Digits(k) \o <<"=", "=", "1", ".", "0", SP>>
                                  ELSE <<"p", "k", "g">> \o Digits(k) \o <<SP, "1", ".", "0">>]) :
        head \in {<<>>, <<<<>>>>, <<<<"P", "a", "c", "k", "a", "g", "e", SP, "V", "e", "r", "s", "i", "o", "n">>, <<"-", "-", "-", "-", "-", "-", "-", SP, "-", "-", "-", "-", "-", "-", "-">>>>,
                  <<<<"#", SP, "p", "a", "c", "k", "a", "g", "e", "s", SP, "i", "n", SP, "e", "n", "v", "i", "r", "o", "n", "m", "e", "n", "t", ":">>, <<"#">>>>},
        n \in (MaxPackages - 3)..MaxPackages,
        freeze \in BOOLEAN}

\* Lines of a dependency tree: a top-level dependency, a deeper one, a
\* top-level one that is unmet, and an error message.
TreeLines ==
    {<<Tee, Dash, Dash>> \o <<SP, "a", "@", "1", ".", "0">>,
     <<Pipe, SP, Corner, Dash, Dash>> \o <<SP, "b", "@", "1", ".", "0">>,
     <<Tee, Dash, Dash>> \o <<SP, "U", "N", "M", "E", "T", SP, "D", "E", "P", "E", "N", "D", "E", "N", "C", "Y", SP, "c", "@", "1", ".", "0">>,
     <<"n", "p", "m", SP, "E", "R", "R", "!", SP, "m", "i", "s", "s", "i", "n", "g", ":", SP, "c", "@", "1", ".", "0">>}

\* Dependency trees: the root line, none or 20 deeper dependencies, valid or
\* invalid, then up to MaxTreeLines lines.
TreeOutputs ==
    {join(<<<<"a", "p", "p", "@", "1", ".", "0", ".", "0", SP, "/", "a", "p", "p">>>>
          \o [k \in 1..n |-> <<Pipe, SP, Tee, Dash, Dash>> \o <<SP, "d">> \o Digits(k) \o tag]
          \o tree) :
        n \in {0, ListFloor},
        tag \in {<<"@", "1", ".", "0">>, <<"@", "1", ".", "0", SP, "i", "n", "v", "a", "l", "i", "d">>},
        tree \in UNION {[1..m -> TreeLines] : m \in 0..MaxTreeLines}}

PackageCalls ==
    (FlatCommands \X FlatOutputs) \cup (TreeCommands \X TreeOutputs)

PackageProcess ==
    /\ ~once.ran
    /\ once' = process_package_list(call.command, text)
    /\ UNCHANGED <<classes, registry, config, call, db, txn, trackers, now, audit,
                   text, twice, pc, lock, done>>

PackageInit ==
    /\ RegistryIdle /\ ThreadsIdle /\ LedgerIdle
    /\ trackers = [t \in Trackers |-> NoTracker]
    /\ config = NoConfig
    /\ \E c \in PackageCalls :
          /\ call = [NoCall EXCEPT !.command = c[1]]
          /\ text = c[2]
    /\ once = NoClean
    /\ twice = <<>>

PackageNext == PackageProcess

SpecPackages == PackageInit /\ [][PackageNext]_vars

(* Claims about the package listing processor *)

IsTreeCall == call.command \in TreeCommands

IsTreeLine(line) == IsTopLevel(line) \/ IsDeeper(line)

\* The items of a listing: the dependencies of a tree; the packages of a flat
\* listing, without the blank lines, the column headers of pip list and the
\* comment lines of conda list.
PackageItems ==
    IF IsTreeCall THEN SelectSeq(splitlines(text), IsTreeLine)
    ELSE IF call.command = <<"p", "i", "p", SP, "l", "i", "s", "t">>
    THEN SelectSeq(StrippedLines(text), LAMBDA s : ~IsPipHeader(s))
    ELSE IF call.command = <<"c", "o", "n", "d", "a", SP, "l", "i", "s", "t">>
    THEN SelectSeq(StrippedLines(text), LAMBDA s : s[1] # "#")
    ELSE StrippedLines(text)

\* The output is a count header stating n, the first 15 items and one elision
\* line stating n - 15.
FirstFifteen(items, out) ==
    /\ Len(out) = ShownItems + 2
    /\ LitAt(out[1], 1, Digits(Len(items)) \o <<SP>>)
    /\ \A k \in 1..ShownItems : strip(out[k + 1]) = strip(items[k])
    /\ HasSub(out[ShownItems + 2],
              <<"(">> \o Digits(Len(items) - ShownItems) \o <<SP, "m", "o", "r", "e", ")">>)

SizeFloor(items) ==
    IF Len(items) <= ListFloor THEN once.out = text
    ELSE FirstFifteen(items, splitlines(once.out))

\* C18 as stated: for every family, the npm/yarn/pnpm one included, at most 20
\* items are returned unchanged, and n > 20 items become a count header stating
\* n, the first 15 items in order and one elision line stating n - 15.
C18_SizeFloor == once.ran => SizeFloor(PackageItems)

\* C18, amended: the size floor in items holds for the flat families (pip list,
\* pip freeze, conda list, gem list, brew list); a dependency tree is returned
\* unchanged up to 20 lines of output and above that is summarized by its total
\* of dependencies, not by its first 15 items.
C18_FlatSizeFloor ==
    once.ran =>
        IF IsTreeCall
        THEN IF Len(splitlines(text)) <= ListFloor THEN once.out = text
             ELSE /\ HasSub(splitlines(once.out)[1], <<SP, "t", "o", "t", "a", "l", SP, "d", "e", "p", "e", "n", "d", "e", "n", "c", "i", "e", "s", ":">>)
                  /\ ~FirstFifteen(PackageItems, splitlines(once.out))
        ELSE SizeFloor(PackageItems)

\* pip list with its two header lines and 21 packages: 17 lines are returned.
C18_Witness ==
    /\ once.ran
    /\ call.command = <<"p", "i", "p", SP, "l", "i", "s", "t">>
    /\ Len(splitlines(text)) = 23
    /\ Len(PackageItems) = 21
    /\ Len(splitlines(once.out)) = 17
    /\ splitlines(once.out)[17] = <<SP, SP, ".", ".", ".", SP, "(", "6", SP, "m", "o", "r", "e", ")">>

\* The lines of the output under the Issues title and under the Top-level title.
TreeSections ==
    LET out == splitlines(once.out)
        t == CHOOSE k \in 1..Len(out) : LitAt(out[k], 1, <<"T", "o", "p", "-", "l", "e", "v", "e", "l", SP, "(">>)
    IN  [total |-> out[1],
         issues |-> {out[k] : k \in 2..(t - 1)},
         top_level |-> {out[k] : k \in (t + 1)..Len(out)}]

\* C19: for a dependency tree of more than 20 lines, the reported total is the
\* number of all tree-indented lines of the input, issue-bearing or not, and
\* every issue line is listed under Issues and never under Top-level.
C19_DependencyTree ==
    once.ran /\ IsTreeCall /\ Len(splitlines(text)) > ListFloor =>
        LET lines == splitlines(text)
            s == TreeSections
        IN  /\ s.total = Digits(Len(SelectSeq(lines, IsTreeLine)))
                            \o <<SP, "t", "o", "t", "a", "l", SP, "d", "e", "p", "e", "n", "d", "e", "n", "c", "i", "e", "s", ":">>
            /\ \A k \in 1..Len(lines) :
                  IsIssue(strip(lines[k])) =>
                      /\ <<SP, SP>> \o strip(lines[k]) \in s.issues
                      /\ <<SP, SP>> \o strip(lines[k]) \notin s.top_level

(* The network processor on curl without -v, NetworkProcessor._process_curl *)

MaxCurlLines == 4    \* lines of a curl output

WordCharAt(s, i) == i >= 1 /\ i <= Len(s) /\ IsWordChar(s[i])

\* re.search(r"\bcurl\b", command)
IsCurl(command) ==
    \E i \in 1..Len(command) :
        /\ LitAt(command, i, <<"c", "u", "r", "l">>)
        /\ ~WordCharAt(command, i - 1)
        /\ ~WordCharAt(command, i + 4)

\* re.search(r"\s-[a-zA-Z]*v|--verbose", command)
IsVerbose(command) ==
    \/ HasSub(command, <<"-", "-", "v", "e", "r", "b", "o", "s", "e">>)
    \/ \E i \in 1..Len(command) :
          /\ IsSpace(command[i])
          /\ LitAt(command, i + 1, <<"-">>)
          /\ \E j \in (i + 2)..Len(command) :
                /\ command[j] = "v"
                /\ \A k \in (i + 2)..(j - 1) : IsLetter(command[k])

\* re.search(r"%\s+Total\s+%\s+Received", s)
IsProgressHeader(s) ==
    \E i \in 1..Len(s) :
        LET j == SpacesEnd(s, SpacesEnd(s, i + 1) + 5)
        IN  /\ LitSpace(s, i, <<"%">>)
            /\ LitSpace(s, SpacesEnd(s, i + 1), <<"T", "o", "t", "a", "l">>)
            /\ LitSpace(s, j, <<"%">>)
            /\ LitAt(s, SpacesEnd(s, j + 1), <<"R", "e", "c", "e", "i", "v", "e", "d">>)

\* re.search(r"Dload\s+Upload", s)
IsDloadHeader(s) ==
    \E i \in 1..Len(s) :
        LitSpace(s, i, <<"D", "l", "o", "a", "d">>) /\ LitAt(s, SpacesEnd(s, i + 5), <<"U", "p", "l", "o", "a", "d">>)

\* re.match(r"^\s*\d+\s+\d+", s) and re.search(r"--:--:--|(\d+:){2}\d+", s)
IsProgressData(s) ==
    /\ DigitsEnd(s, 1) > 1
    /\ SpacesEnd(s, DigitsEnd(s, 1)) > DigitsEnd(s, 1)
    /\ DigitAt(s, SpacesEnd(s, DigitsEnd(s, 1)))
    /\ HasTimePattern(s)

\* The loop of _strip_curl_progress: the indices of the lines appended to result.
RECURSIVE CurlScan(_, _, _, _)
CurlScan(lines, k, in_progress_table, kept) ==
    LET stripped == strip(lines[k])
        step == IF k > Len(lines) THEN "end"
                ELSE IF IsProgressHeader(stripped) THEN "header"
                ELSE IF in_progress_table /\ IsDloadHeader(stripped) THEN "columns"
                ELSE IF IsProgressData(stripped) THEN "data"
                ELSE "keep"
    IN  IF step = "end" THEN kept
        ELSE IF step = "header" THEN CurlScan(lines, k + 1, TRUE, kept)
        ELSE IF step = "columns" THEN CurlScan(lines, k + 1, in_progress_table, kept)
        ELSE IF step = "data" THEN CurlScan(lines, k + 1, FALSE, kept)
        ELSE CurlScan(lines, k + 1, FALSE, Append(kept, k))

\* NetworkProcessor.process(command, output) for curl without -v/--verbose;
\* kept: the indices of the lines of the output that are returned.
process_curl(output) ==
    LET lines == splitlines(output)
        kept == CurlScan(lines, 1, FALSE, <<>>)
    IN  IF strip(output) = <<>>
        THEN [ran |-> TRUE, out |-> output, kept |-> [k \in 1..Len(lines) |-> k]]
        ELSE [ran |-> TRUE, out |-> join([k \in 1..Len(kept) |-> lines[kept[k]]]),
              kept |-> kept]

CurlCommands == {<<"c", "u", "r", "l", SP, "-", "s", SP, "h", "t", "t", "p", ":", "/", "/", "a">>, <<"c", "u", "r", "l", SP, "-", "s", "v", SP, "h", "t", "t", "p", ":", "/", "/", "a">>}

\* Lines of a curl output: the two header lines of the progress meter, a row
\* of it, a body line, a body line that starts with two numbers and holds a
\* time, and an empty line.
CurlLines ==
    {<<SP, SP, "%", SP, "T", "o", "t", "a", "l", SP, SP, SP, SP, "%", SP, "R", "e", "c", "e", "i", "v", "e", "d", SP, "%", SP, "X", "f", "e", "r", "d">>,
     <<SP, SP, SP, SP, SP, SP, SP, SP, SP, SP, SP, SP, SP, SP, SP, SP, SP, "D", "l", "o", "a", "d", SP, SP, "U", "p", "l", "o", "a", "d">>,
     <<"1", "0", "0", SP, SP, SP, SP, "1", "2", SP, SP, SP, SP, "0", SP, SP, SP, SP, SP, "0", SP, "-", "-", ":", "-", "-", ":", "-", "-", SP, SP, SP, SP, "5", "0">>,
     <<"{", "\\", "\"", "o", "k", "\\", "\"", ":", SP, "t", "r", "u", "e", "}">>,
     <<"1", "2", SP, "3", "4", SP, "1", "0", ":", "2", "0", ":", "3", "0", SP, "G", "E", "T", SP, "/", "a">>,
     <<>>}

CurlOutputs == {join(ls) : ls \in UNION {[1..n -> CurlLines] : n \in 0..MaxCurlLines}}

CurlProcess ==
    /\ ~once.ran
    /\ IsCurl(call.command)
    /\ ~IsVerbose(call.command)
    /\ once' = process_curl(text)
    /\ UNCHANGED <<classes, registry, config, call, db, txn, trackers, now, audit,
                   text, twice, pc, lock, done>>

CurlInit ==
    /\ RegistryIdle /\ ThreadsIdle /\ LedgerIdle
    /\ trackers = [t \in Trackers |-> NoTracker]
    /\ config = NoConfig
    /\ \E c \in CurlCommands : call = [NoCall EXCEPT !.command = c]
    /\ text \in CurlOutputs
    /\ once = NoClean
    /\ twice = <<>>

CurlNext == CurlProcess

SpecCurl == CurlInit /\ [][CurlNext]_vars

(* Claims about curl without -v *)

\* The lines of the progress-meter tables of an output: a "% Total % Received"
\* header, the "Dload Upload" header that follows it, and the numeric rows
\* that follow these.
TableLines(s) ==
    LET header == {k \in 1..Len(s) : IsProgressHeader(s[k])}
        columns == {k \in 2..Len(s) : IsDloadHeader(s[k]) /\ k - 1 \in header}
    IN  header \cup columns \cup
        {k \in 1..Len(s) :
            /\ IsProgressData(s[k])
            /\ \E h \in header :
                  /\ h < k
                  /\ \A j \in (h + 1)..(k - 1) : j \in columns \/ IsProgressData(s[j])}

\* C20: for curl without -v/--verbose the lines removed are exactly the lines
\* of the progress-meter tables; every other line is returned, in order.
C20_OnlyProgressTable ==
    once.ran =>
        LET lines == splitlines(text)
            s == [k \in 1..Len(lines) |-> strip(lines[k])]
        IN  /\ {once.kept[i] : i \in 1..Len(once.kept)} = (1..Len(lines)) \ TableLines(s)
            /\ \A i \in 1..(Len(once.kept) - 1) : once.kept[i] < once.kept[i + 1]

(* The network processor on wget, NetworkProcessor._process_wget *)

MaxWgetLines == 3    \* lines of a wget output

\* re.search(r"\bwget\b", command)
IsWget(command) ==
    \E i \in 1..Len(command) :
        /\ LitAt(command, i, <<"w", "g", "e", "t">>)
        /\ ~WordCharAt(command, i - 1)
        /\ ~WordCharAt(command, i + 4)

RECURSIVE EqualsEnd(_, _)
EqualsEnd(s, i) == IF i <= Len(s) /\ s[i] = "=" THEN EqualsEnd(s, i + 1) ELSE i

\* re.search(r"\d+%\s*\[=*>?\s*\]", s)
HasProgressBar(s) ==
    \E p \in 2..Len(s) :
        LET b == SpacesEnd(s, p + 1)
            e == EqualsEnd(s, b + 1)
            g == IF LitAt(s, e, <<">">>) THEN e + 1 ELSE e
        IN  /\ s[p] = "%" /\ IsDigit(s[p - 1])
            /\ LitAt(s, b, <<"[">>)
            /\ LitAt(s, SpacesEnd(s, g), <<"]">>)

\* re.match(r"^\s*\d+K\s+", s) and re.search(r"\.\.\.", s)
IsDotProgress(s) ==
    /\ DigitsEnd(s, 1) > 1
    /\ LitSpace(s, DigitsEnd(s, 1), <<"K">>)
    /\ HasSub(s, <<".", ".", ".">>)

\* The lines that _process_wget drops.
IsWgetDropped(s) ==
    \/ LitSpace(s, 1, <<"R", "e", "s", "o", "l", "v", "i", "n", "g">>)
    \/ LitSpace(s, 1, <<"C", "o", "n", "n", "e", "c", "t", "i", "n", "g", SP, "t", "o">>)
    \/ HasProgressBar(s)
    \/ IsDotProgress(s)

\* re.search(r"saved|ERROR|error|failed|refused|not found", s, re.I)
IsWgetStatus(s) ==
    \E w \in {<<"s", "a", "v", "e", "d">>, <<"e", "r", "r", "o", "r">>, <<"f", "a", "i", "l", "e", "d">>, <<"r", "e", "f", "u", "s", "e", "d">>, <<"n", "o", "t", SP, "f", "o", "u", "n", "d">>} :
        \E i \in 1..Len(s) :
            /\ i + Len(w) - 1 <= Len(s)
            /\ \A k \in 1..Len(w) : Lower(s[i + k - 1]) = w[k]

\* re.match(r"^HTTP request sent", s) or re.search(r"^\d{3}\s", s)
IsHttpResponse(s) ==
    \/ LitAt(s, 1, <<"H", "T", "T", "P", SP, "r", "e", "q", "u", "e", "s", "t", SP, "s", "e", "n", "t">>)
    \/ DigitsEnd(s, 1) >= 4 /\ DigitAt(s, 1) /\ DigitAt(s, 2) /\ DigitAt(s, 3)
       /\ Len(s) >= 4 /\ IsSpace(s[4])

\* The lines that _process_wget returns stripped.
IsWgetStripped(s) ==
    \/ LitAt(s, 1, <<"L", "e", "n", "g", "t", "h", ":">>)
    \/ LitAt(s, 1, <<"S", "a", "v", "i", "n", "g", SP, "t", "o", ":">>)
    \/ IsWgetStatus(s)
    \/ IsHttpResponse(s)
    \/ LitAt(s, 1, <<"L", "o", "c", "a", "t", "i", "o", "n", ":">>)

\* NetworkProcessor.process(command, output) for wget; kept: the indices of the
\* lines of the output that are returned.
process_wget(output) ==
    LET lines == splitlines(output)
        kept == SelectSeq([k \in 1..Len(lines) |-> k],
                          LAMBDA k : ~IsWgetDropped(strip(lines[k])))
    IN  IF strip(output) = <<>>
        THEN [ran |-> TRUE, out |-> output, kept |-> [k \in 1..Len(lines) |-> k]]
        ELSE [ran |-> TRUE,
              out |-> join([k \in 1..Len(kept) |->
                              IF IsWgetStripped(strip(lines[kept[k]]))
                              THEN strip(lines[kept[k]]) ELSE lines[kept[k]]]),
              kept |-> kept]

\* Lines of a wget output.
WgetLines ==
    {<<"R", "e", "s", "o", "l", "v", "i", "n", "g", SP, "a", ".", "b", SP, "(", "a", ".", "b", ")", ".", ".", ".", SP, "1", ".", "2", ".", "3", ".", "4">>,
     <<"R", "e", "s", "o", "l", "v", "i", "n", "g", SP, "a", ".", "b", SP, "(", "a", ".", "b", ")", ".", ".", ".", SP, "f", "a", "i", "l", "e", "d", ":", SP, "N", "a", "m", "e", SP, "o", "r", SP, "s", "e", "r", "v", "i", "c", "e", SP, "n", "o", "t", SP, "k", "n", "o", "w", "n", ".">>,
     <<"C", "o", "n", "n", "e", "c", "t", "i", "n", "g", SP, "t", "o", SP, "a", ".", "b", "|", "1", ".", "2", ".", "3", ".", "4", "|", ":", "8", "0", ".", ".", ".", SP, "c", "o", "n", "n", "e", "c", "t", "e", "d", ".">>,
     <<"C", "o", "n", "n", "e", "c", "t", "i", "n", "g", SP, "t", "o", SP, "a", ".", "b", "|", "1", ".", "2", ".", "3", ".", "4", "|", ":", "8", "0", ".", ".", ".", SP, "f", "a", "i", "l", "e", "d", ":", SP, "C", "o", "n", "n", "e", "c", "t", "i", "o", "n", SP, "r", "e", "f", "u", "s", "e", "d", ".">>,
     <<"H", "T", "T", "P", SP, "r", "e", "q", "u", "e", "s", "t", SP, "s", "e", "n", "t", ",", SP, "a", "w", "a", "i", "t", "i", "n", "g", SP, "r", "e", "s", "p", "o", "n", "s", "e", ".", ".", ".", SP, "3", "0", "2", SP, "F", "o", "u", "n", "d">>,
     <<"L", "o", "c", "a", "t", "i", "o", "n", ":", SP, "h", "t", "t", "p", ":", "/", "/", "c", "/", SP, "[", "f", "o", "l", "l", "o", "w", "i", "n", "g", "]">>,
     <<"L", "e", "n", "g", "t", "h", ":", SP, "1", "2", SP, "[", "t", "e", "x", "t", "/", "h", "t", "m", "l", "]">>,
     <<"S", "a", "v", "i", "n", "g", SP, "t", "o", ":", SP, "x">>,
     <<"x", SP, SP, "5", "0", "%", "[", "=", "=", "=", "=", ">", SP, SP, SP, SP, "]", SP, "6", SP, SP, "-", "-", ".", "-", "K", "B", "/", "s">>,
     <<SP, SP, SP, SP, SP, "0", "K", SP, ".", ".", ".", ".", ".", ".", ".", ".", ".", ".", SP, "1", "0", "0", "%", SP, "1", "M", "=", "0", "s">>,
     <<"2", "0", "2", "6", "-", "0", "1", "-", "0", "1", SP, "(", "1", SP, "M", "B", "/", "s", ")", SP, "-", SP, "x", SP, "s", "a", "v", "e", "d", SP, "[", "1", "2", "/", "1", "2", "]">>,
     <<SP, SP, "b", "o", "d", "y", SP>>}

WgetOutputs == {join(ls) : ls \in UNION {[1..n -> WgetLines] : n \in 0..MaxWgetLines}}

WgetProcess ==
    /\ ~once.ran
    /\ ~IsCurl(call.command)
    /\ IsWget(call.command)
    /\ once' = process_wget(text)
    /\ UNCHANGED <<classes, registry, config, call, db, txn, trackers, now, audit,
                   text, twice, pc, lock, done>>

WgetInit ==
    /\ RegistryIdle /\ ThreadsIdle /\ LedgerIdle
    /\ trackers = [t \in Trackers |-> NoTracker]
    /\ config = NoConfig
    /\ call = [NoCall EXCEPT !.command = <<"w", "g", "e", "t", SP, "h", "t", "t", "p", ":", "/", "/", "a", ".", "b", "/", "x">>]
    /\ text \in WgetOutputs
    /\ once = NoClean
    /\ twice = <<>>

WgetNext == WgetProcess

SpecWget == WgetInit /\ [][WgetNext]_vars

(* Claims about wget *)

\* An error line: it reports a failure, a refusal or an error.
IsErrorLine(s) ==
    \E w \in {<<"e", "r", "r", "o", "r">>, <<"f", "a", "i", "l", "e", "d">>, <<"r", "e", "f", "u", "s", "e", "d">>, <<"n", "o", "t", SP, "f", "o", "u", "n", "d">>} :
        \E i \in 1..Len(s) :
            /\ i + Len(w) - 1 <= Len(s)
            /\ \A k \in 1..Len(w) : Lower(s[i + k - 1]) = w[k]

\* DNS-resolution chatter, connection chatter and ASCII progress bars.
IsChatter(s) ==
    \/ (LitSpace(s, 1, <<"R", "e", "s", "o", "l", "v", "i", "n", "g">>) \/ LitSpace(s, 1, <<"C", "o", "n", "n", "e", "c", "t", "i", "n", "g", SP, "t", "o">>)) /\ ~IsErrorLine(s)
    \/ HasProgressBar(s)
    \/ IsDotProgress(s)

\* C21: every Length, Saving-to, HTTP status, redirect and error line of a
\* wget output is in the result, error lines that mention resolving or
\* connecting included, and only DNS-resolution chatter, connection chatter
\* and progress-bar lines are removed.
C21_WgetFilter ==
    once.ran =>
        LET lines == splitlines(text)
            s == [k \in 1..Len(lines) |-> strip(lines[k])]
            kept == {once.kept[i] : i \in 1..Len(once.kept)}
        IN  \A k \in 1..Len(s) :
               /\ (\/ LitAt(s[k], 1, <<"L", "e", "n", "g", "t", "h", ":">>)
                   \/ LitAt(s[k], 1, <<"S", "a", "v", "i", "n", "g", SP, "t", "o", ":">>)
                   \/ IsHttpResponse(s[k])
                   \/ LitAt(s[k], 1, <<"L", "o", "c", "a", "t", "i", "o", "n", ":">>)
                   \/ IsErrorLine(s[k])) => k \in kept
               /\ k \notin kept => IsChatter(s[k])

----------------------------------------------------------------------------
(* The eligibility gate of the pre-tool hook, is_compressible, and the     *)
(* dispatch of an admitted command                                         *)

MaxCommandWords == 3    \* words of a command given to the gate

IsQuote(s, i) == i >= 1 /\ i <= Len(s) /\ s[i] \in {"'", "\""}

\* ^(w1|w2|...)\b at the position i
WordAt(s, i, W) == \E w \in W : LitAt(s, i, w) /\ ~WordCharAt(s, i + Len(w))

\* (t1|t2|...)\s+(s1|s2|...)\b at the position i
PairAt(s, i, tools, subs) ==
    \E tool \in tools, sub \in subs :
        LET j == SpacesEnd(s, i + Len(tool))
        IN  /\ LitSpace(s, i, tool)
            /\ LitAt(s, j, sub)
            /\ ~WordCharAt(s, j + Len(sub))

\* A match of one of the hook_patterns of the processor p.
MatchesHookOf(p, cmd) ==
    CASE p.name = "package_list" ->
            \/ PairAt(cmd, 1, Pip, {<<"l", "i", "s", "t">>, <<"f", "r", "e", "e", "z", "e">>})
            \/ PairAt(cmd, 1, {<<"n", "p", "m">>}, {<<"l", "s">>, <<"l", "i", "s", "t">>})
            \/ PairAt(cmd, 1, {<<"c", "o", "n", "d", "a">>, <<"g", "e", "m">>, <<"b", "r", "e", "w">>}, {<<"l", "i", "s", "t">>})
      [] p.name = "network" -> WordAt(cmd, 1, {<<"c", "u", "r", "l">>, <<"w", "g", "e", "t">>})
      [] p.name = "terraform" ->
            PairAt(cmd, 1, {<<"t", "e", "r", "r", "a", "f", "o", "r", "m">>, <<"t", "o", "f", "u">>}, {<<"p", "l", "a", "n">>, <<"a", "p", "p", "l", "y">>, <<"d", "e", "s", "t", "r", "o", "y">>})
      [] p.name = "search" -> WordAt(cmd, 1, {<<"g", "r", "e", "p">>, <<"r", "g">>, <<"a", "g">>})
      [] OTHER -> FALSE

\* any(pattern.search(cmd) for pattern in COMPILED_PATTERNS), the patterns
\* being those of the discovered processors
MatchesCompressible(instances, cmd) ==
    \E k \in 1..Len(instances) : MatchesHookOf(instances[k], cmd)

\* (?<!['"])X(?!['"]) for a literal X
NotByQuote(cmd, lit) ==
    \E i \in 1..Len(cmd) :
        /\ LitAt(cmd, i, lit)
        /\ ~IsQuote(cmd, i - 1)
        /\ ~IsQuote(cmd, i + Len(lit))

\* ^\s*(w1|w2|...)\b
FirstWord(cmd, W) == WordAt(cmd, SpacesEnd(cmd, 1), W)

\* ^\s*env\s+\S+=
EnvPrefix(cmd) ==
    LET e == SpacesEnd(cmd, 1)
        j == SpacesEnd(cmd, e + 3)
    IN  /\ LitSpace(cmd, e, <<"e", "n", "v">>)
        /\ \E k \in (j + 1)..Len(cmd) :
              cmd[k] = "=" /\ \A m \in j..(k - 1) : ~IsSpace(cmd[m])

\* token.saver
SelfReference(cmd) ==
    \E i \in 1..Len(cmd) :
        /\ LitAt(cmd, i, <<"t", "o", "k", "e", "n">>)
        /\ LitAt(cmd, i + 6, <<"s", "a", "v", "e", "r">>)
        /\ cmd[i + 5] # LF

\* any(pattern.search(cmd) for pattern in COMPILED_EXCLUDED)
MatchesExcluded(cmd) ==
    \/ NotByQuote(cmd, <<"|">>)
    \/ NotByQuote(cmd, <<"&", "&">>)
    \/ NotByQuote(cmd, <<"|", "|">>)
    \/ FirstWord(cmd, {<<"v", "i">>, <<"v", "i", "m">>, <<"n", "a", "n", "o">>, <<"e", "m", "a", "c", "s">>, <<"c", "o", "d", "e">>})
    \/ FirstWord(cmd, {<<"s", "s", "h">>, <<"s", "c", "p">>, <<"r", "s", "y", "n", "c">>})
    \/ SelfReference(cmd)
    \/ HasSub(cmd, <<"w", "r", "a", "p", ".", "p", "y">>)
    \/ \E i \in 1..(Len(cmd) - 1) : cmd[i] = ">" /\ IsSpace(cmd[i + 1])
    \/ HasSub(cmd, <<"<", "(">>)
    \/ FirstWord(cmd, {<<"s", "u", "d", "o">>})
    \/ EnvPrefix(cmd)

is_compressible(instances, command) ==
    LET cmd == strip(command)
    IN  /\ cmd # <<>>
        /\ ~MatchesExcluded(cmd)
        /\ MatchesCompressible(instances, cmd)

\* re.search(r"\b(w1|w2|...)\b", command)
HasWordIn(command, W) ==
    \E i \in 1..Len(command) : WordAt(command, i, W) /\ ~WordCharAt(command, i - 1)

\* can_handle of each processor of the package
Handles(p, command) ==
    CASE p.name = "package_list" ->
            \/ CommandIs(command, Pip, {<<"l", "i", "s", "t">>, <<"f", "r", "e", "e", "z", "e">>})
            \/ CommandIs(command, {<<"n", "p", "m">>}, {<<"l", "s">>, <<"l", "i", "s", "t">>})
            \/ CommandIs(command, {<<"c", "o", "n", "d", "a">>, <<"y", "a", "r", "n">>, <<"p", "n", "p", "m">>, <<"g", "e", "m">>, <<"b", "r", "e", "w">>}, {<<"l", "i", "s", "t">>})
      [] p.name = "network" -> HasWordIn(command, {<<"c", "u", "r", "l">>, <<"w", "g", "e", "t">>, <<"h", "t", "t", "p">>, <<"h", "t", "t", "p", "s">>})
      [] p.name = "terraform" ->
            CommandIs(command, {<<"t", "e", "r", "r", "a", "f", "o", "r", "m">>, <<"t", "o", "f", "u">>}, {<<"p", "l", "a", "n">>, <<"a", "p", "p", "l", "y">>, <<"d", "e", "s", "t", "r", "o", "y">>})
      [] p.name = "search" -> HasWordIn(command, {<<"g", "r", "e", "p">>, <<"r", "g">>, <<"a", "g">>})
      [] OTHER -> TRUE

\* The first processor, in registry order, whose can_handle is true.
RECURSIVE FirstHandler(_, _, _)
FirstHandler(instances, command, i) ==
    IF i > Len(instances) THEN 0
    ELSE IF Handles(instances[i], command) THEN i
    ELSE FirstHandler(instances, command, i + 1)

\* The first words of the commands, and the words that follow.
GateHeads ==
    {<<>>, <<"g", "r", "e", "p">>, <<"c", "u", "r", "l">>, <<"t", "e", "r", "r", "a", "f", "o", "r", "m">>, <<"p", "i", "p">>, <<"s", "u", "d", "o">>, <<"v", "i", "m">>, <<"s", "s", "h">>,
     <<"e", "n", "v">>, <<"x">>}

GateArgs ==
    {<<>>, <<"p", "l", "a", "n">>, <<"l", "i", "s", "t">>, <<"h", "t", "t", "p">>, <<"'", "a", "|", "b", "'">>, <<"|", "'", "w", "c", "'">>, <<"|">>, <<"&", "&">>, <<">">>,
     <<">", "o", "u", "t">>, <<"<", "(", "l", "s", ")">>, <<"A", "=", "1">>, <<"t", "o", "k", "e", "n", "-", "s", "a", "v", "e", "r">>, <<"w", "r", "a", "p", ".", "p", "y">>, <<"x">>}

RECURSIVE JoinWords(_)
JoinWords(ws) ==
    IF Len(ws) = 1 THEN ws[1] ELSE ws[1] \o <<SP>> \o JoinWords(Tail(ws))

GateCommands ==
    {JoinWords(ws) : ws \in UNION {{<<h>> \o a : h \in GateHeads, a \in [1..n -> GateArgs]} :
                                     n \in 0..(MaxCommandWords - 1)}}

\* The processors of the package, as the registry returns them.
GateRegistry ==
    discover_processors(<<SearchProcessor, GenericProcessor, NetworkProcessor,
                          PackageListProcessor, TerraformProcessor>>)

NoGate == [ran |-> FALSE, eligible |-> FALSE, selected |-> "none"]

\* The hook asks the gate about the command of the request.
GateCheck ==
    /\ registry.status = "ok"
    /\ ~once.ran
    /\ once' = [NoGate EXCEPT !.ran = TRUE,
                              !.eligible = is_compressible(registry.instances, call.command)]
    /\ UNCHANGED <<classes, registry, config, call, db, txn, trackers, now, audit,
                   text, twice, pc, lock, done>>

\* The wrapped command's output reaches the pipeline, which selects the
\* processor for the command.
Dispatch ==
    /\ once.ran /\ once.eligible /\ once.selected = "none"
    /\ once' = [once EXCEPT !.selected =
                    registry.instances[FirstHandler(registry.instances, call.command, 1)].name]
    /\ UNCHANGED <<classes, registry, config, call, db, txn, trackers, now, audit,
                   text, twice, pc, lock, done>>

GateInit ==
    /\ \E c \in GateCommands : call = [NoCall EXCEPT !.command = c]
    /\ registry = GateRegistry
    /\ once = NoGate
    /\ classes = <<>>
    /\ ThreadsIdle /\ LedgerIdle
    /\ trackers = [t \in Trackers |-> NoTracker]
    /\ config = NoConfig
    /\ text = <<>>
    /\ twice = <<>>

GateNext == GateCheck \/ Dispatch

SpecGate == GateInit /\ [][GateNext]_vars

----------------------------------------------------------------------------
(* Claims about the eligibility gate *)

\* The quote character that is open before the position i of the command
\* ("" when none is), reading from the position k in the state q.
RECURSIVE QuoteFrom(_, _, _, _)
QuoteFrom(cmd, k, i, q) ==
    IF k >= i THEN q
    ELSE IF q = "" THEN QuoteFrom(cmd, k + 1, i, IF IsQuote(cmd, k) THEN cmd[k] ELSE "")
    ELSE QuoteFrom(cmd, k + 1, i, IF cmd[k] = q THEN "" ELSE q)

\* The literal stands in the command outside of any quotes.
Unquoted(cmd, lit) ==
    \E i \in 1..Len(cmd) : LitAt(cmd, i, lit) /\ QuoteFrom(cmd, 1, i, "") = ""

\* The exclusion list, as the words of the specification describe it.
ExcludedCommand(cmd) ==
    \/ Unquoted(cmd, <<"|">>) \/ Unquoted(cmd, <<"&", "&">>) \/ Unquoted(cmd, <<"|", "|">>)
    \/ FirstWord(cmd, {<<"v", "i">>, <<"v", "i", "m">>, <<"n", "a", "n", "o">>, <<"e", "m", "a", "c", "s">>, <<"c", "o", "d", "e">>})
    \/ FirstWord(cmd, {<<"s", "s", "h">>, <<"s", "c", "p">>, <<"r", "s", "y", "n", "c">>})
    \/ Unquoted(cmd, <<">">>)
    \/ Unquoted(cmd, <<"<", "(">>)
    \/ SelfReference(cmd) \/ HasSub(cmd, <<"w", "r", "a", "p", ".", "p", "y">>)
    \/ FirstWord(cmd, {<<"s", "u", "d", "o">>})
    \/ EnvPrefix(cmd)

\* C22: the gate accepts a command exactly when the trimmed command is not
\* empty, matches a hook pattern of some processor and falls under no
\* exclusion (an unquoted pipe, && or ||, an editor, a remote shell, an output
\* redirection, a process substitution, a self-reference, sudo, an env VAR=
\* prefix); an excluded command is never accepted.
C22_EligibilityGate ==
    once.ran =>
        LET cmd == strip(call.command)
        IN  once.eligible <=>
                /\ cmd # <<>>
                /\ MatchesCompressible(registry.instances, cmd)
                /\ ~ExcludedCommand(cmd)

\* C28: the pipeline selects, for a command that the gate accepted, the
\* processor whose hook pattern the command matches.
C28_GateDispatchAgreement ==
    once.selected # "none" =>
        \A k \in 1..Len(registry.instances) :
            MatchesHookOf(registry.instances[k], strip(call.command))
                => once.selected = registry.instances[k].name

----------------------------------------------------------------------------
(* The pre-tool hook, main of hook_pretool.py                              *)
(*                                                                         *)
(* A JSON value is a record of its type and its value; the text that       *)
(* json.loads rejects has the type "invalid". An object is a function from *)
(* its keys to JSON values.                                                *)

JInvalid == [type |-> "invalid", value |-> FALSE]
JMissing == [type |-> "missing", value |-> FALSE]
JNull == [type |-> "null", value |-> FALSE]
JBool(b) == [type |-> "bool", value |-> b]
JNum(n) == [type |-> "number", value |-> n]
JStr(s) == [type |-> "string", value |-> s]
JList(l) == [type |-> "list", value |-> l]

\* The object of the fields of f that are present.
JObj(f) ==
    [type |-> "object",
     value |-> [k \in {x \in DOMAIN f : f[x].type # "missing"} |-> f[k]]]

\* bool(v)
Truthy(v) ==
    CASE v.type = "null" -> FALSE
      [] v.type = "bool" -> v.value
      [] v.type = "number" -> v.value # 0
      [] v.type \in {"string", "list"} -> v.value # <<>>
      [] v.type = "object" -> DOMAIN v.value # {}

\* d.get(key, default) of a dict d
Get(d, key, default) == IF key \in DOMAIN d.value THEN d.value[key] ELSE default

\* v == s for a str s
IsStr(v, s) == v.type = "string" /\ v.value = s

\* file_path.lower().endswith(_IMAGE_EXTENSIONS)
IsImagePath(path) ==
    LET low == [k \in 1..Len(path) |-> Lower(path[k])]
    IN  \E ext \in {<<".", "p", "n", "g">>, <<".", "j", "p", "g">>, <<".", "j", "p", "e", "g">>, <<".", "w", "e", "b", "p">>, <<".", "g", "i", "f">>} :
            Len(low) >= Len(ext) /\ LitAt(low, Len(low) - Len(ext) + 1, ext)

\* What a run of the hook leaves: the exit status, what it wrote on the
\* standard output, and whether it ended in an uncaught exception, whose
\* traceback goes to the standard error.
Exit0 == [ran |-> TRUE, status |-> 0, stdout |-> JMissing, raised |-> FALSE]
Uncaught == [ran |-> TRUE, status |-> 1, stdout |-> JMissing, raised |-> TRUE]
Rewrite(key, v) == [Exit0 EXCEPT !.stdout = JObj([updatedInput |-> JObj(key :> v)])]

\* python3 wrap.py command, each argument quoted by shlex.quote
Wrapped(command) == [wrap |-> command]

\* main(): stdin is the request, wrap_py tells whether wrap.py is next to
\* the hook, optimized whether _optimize_image returns a path.
main(instances, stdin, wrap_py, optimized) ==
    IF stdin.type = "invalid" THEN Exit0
    ELSE IF stdin.type # "object" THEN Uncaught
    ELSE
    LET tool_name == Get(stdin, "tool_name", JStr(<<>>))
        tool_input == Get(stdin, "tool_input", JObj(<<>>))
    IN  IF IsStr(tool_name, <<"R", "e", "a", "d">>)
        THEN IF tool_input.type # "object" THEN Uncaught
             ELSE LET file_path == Get(tool_input, "file_path", JStr(<<>>))
                  IN  IF ~Truthy(file_path) THEN Exit0
                      ELSE IF file_path.type # "string" THEN Uncaught
                      ELSE IF IsImagePath(file_path.value) /\ optimized
                      THEN Rewrite("file_path", JStr(<<"/", "t", "m", "p", "/", "t", "o", "k", "e", "n", "-", "s", "a", "v", "e", "r", "-", "i", "m", "g">>))
                      ELSE Exit0
        ELSE IF ~IsStr(tool_name, <<"B", "a", "s", "h">>) THEN Exit0
        ELSE IF tool_input.type # "object" THEN Uncaught
        ELSE LET command == Get(tool_input, "command", JStr(<<>>))
             IN  IF ~Truthy(command)
                 THEN IF command.type \in {"string", "list"} THEN Exit0 ELSE Uncaught
                 ELSE IF command.type # "string" THEN Uncaught
                 ELSE IF ~is_compressible(instances, command.value) THEN Exit0
                 ELSE IF ~wrap_py THEN Exit0
                 ELSE Rewrite("command", JStr(Wrapped(command.value)))

\* The values of the fields of a request.
ToolNames == {JMissing, JNull, JNum(5), JStr(<<"B", "a", "s", "h">>), JStr(<<"R", "e", "a", "d">>), JStr(<<"E", "d", "i", "t">>)}

HookCommands ==
    {JMissing, JNull, JNum(0), JNum(5), JBool(FALSE), JStr(<<>>), JList(<<>>),
     JList(<<JStr(<<"g", "r", "e", "p">>)>>), JObj(<<>>), JStr(<<"l", "s">>), JStr(<<"g", "r", "e", "p", SP, "x", SP, "f">>),
     JStr(<<"g", "r", "e", "p", SP, "x", SP, "|", SP, "w", "c">>)}

ReadPaths == {JMissing, JNull, JNum(5), JStr(<<"a", ".", "t", "x", "t">>), JStr(<<"a", ".", "P", "N", "G">>)}

ToolInputs ==
    {JMissing, JNull, JStr(<<"l", "s">>), JList(<<>>)}
        \cup {JObj([command |-> c, file_path |-> f]) : c \in HookCommands, f \in ReadPaths}

Requests ==
    {JInvalid, JNull, JBool(TRUE), JNum(5), JStr(<<"s">>), JList(<<>>)}
        \cup {JObj([tool_name |-> n, tool_input |-> i]) : n \in ToolNames, i \in ToolInputs}

NoHook == [ran |-> FALSE, status |-> 0, stdout |-> JMissing, raised |-> FALSE]

\* One run of the hook on the request.
Hook ==
    /\ ~once.ran
    /\ once' = main(registry.instances, text.stdin, text.wrap_py, text.optimized)
    /\ UNCHANGED <<classes, registry, config, call, db, txn, trackers, now, audit,
                   text, twice, pc, lock, done>>

HookInit ==
    /\ text \in [stdin : Requests, wrap_py : BOOLEAN, optimized : BOOLEAN]
    /\ registry = GateRegistry
    /\ once = NoHook
    /\ classes = <<>>
    /\ ThreadsIdle /\ LedgerIdle
    /\ trackers = [t \in Trackers |-> NoTracker]
    /\ config = NoConfig
    /\ call = NoCall
    /\ twice = <<>>

HookNext == Hook

SpecHook == HookInit /\ [][HookNext]_vars

----------------------------------------------------------------------------
(* Claims about the pre-tool hook *)

\* The field of the request's object, JMissing when it is absent.
Field(d, key) == Get(d, key, JMissing)

\* An unparseable or incomplete request: text that is not JSON, JSON that
\* is not an object, a tool_name or tool_input that is missing or of the
\* wrong type, a Bash request whose command is missing or not a string.
Malformed(stdin) ==
    \/ stdin.type # "object"
    \/ Field(stdin, "tool_name").type # "string"
    \/ Field(stdin, "tool_input").type # "object"
    \/ /\ IsStr(Field(stdin, "tool_name"), <<"B", "a", "s", "h">>)
       /\ Field(Field(stdin, "tool_input"), "command").type # "string"

\* A well-formed request for a tool that is neither Bash nor Read, or for a
\* Bash command that the gate refuses.
NotForTheHook(stdin) ==
    /\ ~Malformed(stdin)
    /\ \/ Field(stdin, "tool_name").value \notin {<<"B", "a", "s", "h">>, <<"R", "e", "a", "d">>}
       \/ /\ IsStr(Field(stdin, "tool_name"), <<"B", "a", "s", "h">>)
          /\ ~is_compressible(registry.instances,
                              Field(Field(stdin, "tool_input"), "command").value)

\* C23: on an unparseable or incomplete request the hook writes nothing, has
\* no other effect and ends with the exit status 0; a request for another
\* tool, or for a Bash command that is not eligible, gets no rewrite.
C23_MalformedIsNoOp ==
    once.ran =>
        /\ Malformed(text.stdin) => once = Exit0
        /\ NotForTheHook(text.stdin) => once.stdout = JMissing

----------------------------------------------------------------------------
(* The configuration: environment overrides, reload and get                *)
(*                                                                         *)
(* The environment holds, for each key, the text of TOKEN_SAVER_<KEY> or   *)
(* Unset. The ratio is kept in percent, as in the pipeline.                *)

Unset == <<"unset">>

ConfigKeys == {"min_input_length", "min_compression_ratio"}

Defaults ==
    [min_input_length |-> DefaultMinInputLength,
     min_compression_ratio |-> DefaultMinCompressionRatio]

DigitValue(c) == CHOOSE d \in 0..9 : Digits(d) = <<c>>

\* The number that a run of digits writes.
RECURSIVE NumberOf(_)
NumberOf(s) ==
    IF s = <<>> THEN 0
    ELSE 10 * NumberOf(SubSeq(s, 1, Len(s) - 1)) + DigitValue(s[Len(s)])

AllDigits(s) == s # <<>> /\ \A k \in 1..Len(s) : IsDigit(s[k])

Unsigned(s) == IF s # <<>> /\ s[1] \in {"+", "-"} THEN Tail(s) ELSE s

Signed(s, n) == IF s # <<>> /\ s[1] = "-" THEN -n ELSE n

\* int(text): white space around, an optional sign, digits.
ParseInt(v) ==
    LET s == strip(v)
    IN  IF AllDigits(Unsigned(s))
        THEN [ok |-> TRUE, value |-> Signed(s, NumberOf(Unsigned(s)))]
        ELSE [ok |-> FALSE, value |-> 0]

\* float(text), in percent: digits, then optionally a point and at most two
\* decimals.
ParseRatio(v) ==
    LET s == Unsigned(strip(v))
        points == {k \in 1..Len(s) : s[k] = "."}
        p == IF points = {} THEN Len(s) + 1 ELSE CHOOSE k \in points : TRUE
        whole == SubSeq(s, 1, p - 1)
        part == SubSeq(s, p + 1, Len(s))
        cents == IF Len(part) = 1 THEN 10 * NumberOf(part) ELSE NumberOf(part)
    IN  IF /\ Cardinality(points) <= 1
           /\ Len(part) <= 2
           /\ whole \o part # <<>>
           /\ \A k \in 1..Len(whole \o part) : IsDigit((whole \o part)[k])
        THEN [ok |-> TRUE, value |-> Signed(strip(v), 100 * NumberOf(whole) + cents)]
        ELSE [ok |-> FALSE, value |-> 0]

\* The override of a key, read as the type of the key's default.
ParseOverride(key, v) ==
    IF key = "min_input_length" THEN ParseInt(v) ELSE ParseRatio(v)

\* A loading that rejects the environment as a whole.
JointLoad(env) ==
    IF \A key \in ConfigKeys : env[key] = Unset \/ ParseOverride(key, env[key]).ok
    THEN [key \in ConfigKeys |->
            IF env[key] = Unset THEN Defaults[key] ELSE ParseOverride(key, env[key]).value]
    ELSE Defaults

\* The values after reload(): each key on its own takes its override when
\* it parses, its default otherwise.
load(env) ==
    [key \in ConfigKeys |->
        IF env[key] # Unset /\ ParseOverride(key, env[key]).ok
        THEN ParseOverride(key, env[key]).value
        ELSE Defaults[key]]

None == [none |-> TRUE]

\* config.get(key)
get(cfg, key) == IF key \in DOMAIN cfg THEN [none |-> FALSE, value |-> cfg[key]] ELSE None

Overrides ==
    [min_input_length : {Unset, <<"5", "0", "0">>, <<"n", "o", "t", "_", "a", "_", "n", "u", "m", "b", "e", "r">>, <<"1", "2", ".", "5">>, <<SP, "7", SP>>},
     min_compression_ratio : {Unset, <<"0", ".", "2", "5">>, <<"n", "o", "t", "_", "a", "_", "n", "u", "m", "b", "e", "r">>, <<"1">>, <<"0", ".", "2", ".", "5">>}]

NoGet == [ran |-> FALSE, key |-> "none", value |-> None]

\* os.environ[TOKEN_SAVER_<KEY>] = v, or del os.environ[...] for Unset
SetOverride ==
    \E key \in ConfigKeys : \E v \in {o[key] : o \in Overrides} :
        /\ v # text[key]
        /\ text' = [text EXCEPT ![key] = v]
        /\ once' = NoGet
        /\ UNCHANGED <<classes, registry, config, call, db, txn, trackers, now, audit,
                       twice, pc, lock, done>>

\* config.reload(); twice remembers the environment that was loaded.
Reload ==
    /\ config' = load(text)
    /\ twice' = text
    /\ once' = NoGet
    /\ UNCHANGED <<classes, registry, call, db, txn, trackers, now, audit,
                   text, pc, lock, done>>

GetKey ==
    \E key \in ConfigKeys \cup {"nonexistent_key"} :
        /\ once' = [ran |-> TRUE, key |-> key, value |-> get(config, key)]
        /\ UNCHANGED <<classes, registry, config, call, db, txn, trackers, now, audit,
                       text, twice, pc, lock, done>>

\* The module is loaded once, in a process that starts without overrides.
ConfigInit ==
    /\ text = [key \in ConfigKeys |-> Unset]
    /\ config = load(text)
    /\ twice = text
    /\ once = NoGet
    /\ RegistryIdle /\ ThreadsIdle /\ LedgerIdle
    /\ trackers = [t \in Trackers |-> NoTracker]
    /\ call = NoCall

ConfigNext == SetOverride \/ Reload \/ GetKey

SpecConfig == ConfigInit /\ [][ConfigNext]_vars

----------------------------------------------------------------------------
(* Claims about the configuration *)

\* The override of the key is set and is not a value of the key's type.
InvalidOverride(env, key) == env[key] # Unset /\ ~ParseOverride(key, env[key]).ok

\* What get must return for a key of the configuration.
Expected(env, key) ==
    IF env[key] = Unset \/ InvalidOverride(env, key) THEN Defaults[key]
    ELSE ParseOverride(key, env[key]).value

\* The environment has been reloaded since its last change.
Reloaded == twice = text

\* C24: after overrides followed by reload, get returns the override of a
\* key when it is valid for the key's type and the built-in default (200,
\* 10 percent) when it is absent or invalid, and None for an unknown key; an
\* invalid override of one key leaves every other key at its own value.
C24_ConfigFallback ==
    Reloaded =>
        /\ once.ran /\ once.key \in ConfigKeys =>
                once.value = [none |-> FALSE, value |-> Expected(text, once.key)]
        /\ once.ran /\ once.key \notin ConfigKeys => once.value = None
        /\ \A bad \in ConfigKeys : InvalidOverride(text, bad) =>
                \A key \in ConfigKeys \ {bad} :
                    config[key] = Expected([text EXCEPT ![bad] = Unset], key)

\* A valid override of one key has been read next to an invalid override of
\* the other key.
C24_Witness ==
    /\ Reloaded /\ once.ran
    /\ once.key = "min_compression_ratio"
    /\ once.value = [none |-> FALSE, value |-> 25]
    /\ InvalidOverride(text, "min_input_length")
    /\ config.min_input_length = DefaultMinInputLength

----------------------------------------------------------------------------
(* Claims about the two tables of the ledger *)

\* The CompressionRecords stored for a session.
RecordsOf(v, sid) == {r \in v.savings : r.session_id = sid}

\* The aggregate rows of the store v carry the sums and the number of the
\* records stored for their sessions, and every record has an aggregate row.
TablesAgree(v) ==
    /\ \A s \in v.sessions :
          /\ s.total_original = Total(RecordsOf(v, s.session_id), "original_size")
          /\ s.total_compressed = Total(RecordsOf(v, s.session_id), "compressed_size")
          /\ s.command_count = Cardinality(RecordsOf(v, s.session_id))
    /\ \A r \in v.savings : \E s \in v.sessions : s.session_id = r.session_id

\* C25: in every state that record calls (successful or failed), crashes
\* between statements and constructions with their prune can reach, each
\* SessionAggregate row equals the sums and the count of the stored
\* CompressionRecords of its session, and every stored record belongs to a
\* session with an aggregate row.
C25_TablesNeverDiverge == TablesAgree(db)

----------------------------------------------------------------------------
(* Claims about the savings that reach the ledger *)

\* The "saved" and "ratio" entries of a snapshot are not negative and the
\* ratio, in tenths of a percent, is at most 100.0.
SoundSnapshot(s) == s.saved >= 0 /\ s.ratio >= 0 /\ s.ratio <= 1000

----------------------------------------------------------------------------
(* Claims about the matches that a grouped search summary counts *)

\* The first line of a grouped summary, for n matches in f files.
SummaryHeader(n, f) ==
    Digits(n) \o <<SP, "m", "a", "t", "c", "h", "e", "s", SP, "a", "c", "r", "o", "s", "s", SP>> \o Digits(f) \o <<SP, "f", "i", "l", "e", "s", ":">>

\* The input lines that the header's total counts.
Counted(g) == {k \in 1..Len(g.scan) : g.scan[k].kind \in {"file", "plain"}}

\* The counted line k is printed as it is, or is one of the matches of a
\* file whose group shows 3 of them and the count of the others, or is a
\* match of a file that the final count of the remaining files covers.
Accounted(g, k) ==
    \/ \E j \in 2..Len(g.out) : g.out[j] = g.scan[k].content
    \/ /\ g.scan[k].kind = "file"
       /\ LET p == g.scan[k].path
          IN  \/ g.count[p] > MaxPerFile /\ g.at[p] # {} /\ GroupShape(g, p)
              \/ /\ g.at[p] = {}
                 /\ Cardinality(g.files) > MaxFiles
                 /\ g.out[Len(g.out)] = FilesElision(Cardinality(g.files) - MaxFiles)

\* C27: in a grouped summary every input line counted in the header's
\* "N matches across F files" is printed, or covered by the "... (k more)"
\* count of its file, or belongs to a file counted by the final
\* "... (k more files)" line; a match whose path has neither '/' nor '.' is
\* no exception.
C27_EveryMatchAccounted ==
    Grouped =>
        LET g == SearchGroups
        IN  /\ g.out[1] = SummaryHeader(Cardinality(Counted(g)), Cardinality(g.files))
            /\ \A k \in Counted(g) : Accounted(g, k)

====
